---- MODULE Spec2Model ----
(***************************************************************************)
(* A model of the tsz in-process metrics engine:                           *)
(*   - the Exporter (src/src/exporter.rs): the entities set, the entities  *)
(*     with their pin counts and metrics, and the asynchronous operations   *)
(*     on them, one action per step between two suspension points;         *)
(*   - the buffered metrics and the MetricManager                          *)
(*     (src/src/tsz/buffered/*.rs): instances, their local buffers, the    *)
(*     registry, the posted register / unregister tasks, the periodic      *)
(*     flush and the read-triggered flush.                                 *)
(* Option<T> is written as a sequence: <<>> is None, <<v>> is Some(v).     *)
(***************************************************************************)
EXTENDS Integers, Sequences, FiniteSets, TLC

\* ------------------------------------------------------------------ bounds

\* Concurrent tasks calling the Exporter.
NumTasks == 2
\* Exporter operations started in one behaviour.
MaxOps == 3
\* Calls made on the buffered metrics and the manager (increment_by, record,
\* get, a drop), and ticks of the periodic task, in one behaviour.
MaxCalls == 3
\* The readings of the clock are 0 .. MaxClock.
MaxClock == 2

\* ------------------------------------------------------------ value spaces

EntityLabelSeq == <<"e1", "e2">>
EntityLabels == {EntityLabelSeq[i] : i \in DOMAIN EntityLabelSeq}
LabelRank(e) == CHOOSE i \in DOMAIN EntityLabelSeq : EntityLabelSeq[i] = e

MetricNameSeq == <<"/c", "/d">>
MetricNames == {MetricNameSeq[i] : i \in DOMAIN MetricNameSeq}
FieldSets == {"f1", "f2"}
IntValues == {1, 2}

Tasks == 1..NumTasks

None == <<>>
Some(v) == <<v>>
IsSome(o) == o /= <<>>
Unwrap(o) == o[1]

\* ------------------------------------------------------------------- state

VARIABLES
    \* Exporter
    metric_configs,   \* Exporter.metric_configs: name -> Option<MetricConfig>
    entities,         \* Exporter.entities: the entity objects in the set
    entities_lock,    \* owner of the entities mutex (0: free)
    heap,             \* every Entity object ever allocated (Arc<Entity>)
    \* tasks calling the Exporter
    pc, op, obj, iter, res, nops,
    \* history: the last mutation applied to each cell key, in application order
    lastApplied,
    clock,            \* Exporter.clock: the time now() returns
    hist,             \* history of the Exporter operations (see HistInit)
    \* buffered metric instances (CounterImpl / EventMetricImpl behind a facade)
    inner,            \* the facade's Lazy value: None, or Some([id |-> n])
    dropped,          \* the facade has been dropped
    iota,             \* the static IOTA id counters, one per implementation
    data,             \* the instance's local buffer: key -> Option<delta>
    register_task,    \* the task posted by register(): none, posted, defined, done
    unregister_task,  \* the task posted by Drop: none, posted, done, panicked
    \* MetricManager
    mgr_metrics,      \* MetricManager.metrics: name -> Option<set of instances>
    mgr_lock,         \* owner of the registry mutex: "free", "tick" or "reader"
    flush,            \* the flushes the owner of the registry mutex is running
    tick,             \* the periodic task
    rd,               \* the task reading through Counter::get / MetricManager::get_*
    \* history
    ncalls,            \* calls made and ticks fired
    total,            \* per instance and key, everything passed to increment_by / record
    applied,          \* per instance and key, everything its flushes gave the Exporter
    \* library values (tsz/bucketer.rs, tsz/distribution.rs, tsz/config.rs, tsz/mod.rs)
    BUCKETERS,        \* the static cache of Bucketer::get: address -> parameters
    handed,           \* history: <<parameters, address>> of every return of Bucketer::get
    dist,             \* two Distribution values, dist[1] and dist[2]
    recorded,         \* history: per distribution, the samples recorded since its last clear
    called,           \* the last call of a library function: its arguments and its result
    \* buffered metric implementations made by any number of facades
    impls,            \* every CounterImpl / EventMetricImpl made: kind, name, id, its tasks
    registry,         \* MetricManager.metrics by id: name -> Option<id -> Option<impl>>
    \* a facade's Lazy inner value and the threads using the facade
    lazy,             \* Lazy: initialized, factory, its mutex, value; history: runs, used
    thr,              \* per thread: the call it is in, its position, its result
    \* gets of a buffered metric polled by one executor thread
    register_task_handle,  \* per instance: the Mutex<Option<JoinHandle>> and its owner
    getf              \* per get future: its position, its instance and key, its result

expVars == <<metric_configs, entities, entities_lock, heap>>
taskVars == <<pc, op, obj, iter, res, nops>>
bufVars == <<inner, dropped, iota, data, register_task, unregister_task,
             mgr_metrics, mgr_lock, flush, tick, rd, ncalls, total, applied>>
vars == <<metric_configs, entities, entities_lock, heap,
          pc, op, obj, iter, res, nops, lastApplied, clock, hist,
          inner, dropped, iota, data, register_task, unregister_task,
          mgr_metrics, mgr_lock, flush, tick, rd, ncalls, total, applied,
          BUCKETERS, handed, dist, recorded, called,
          impls, registry, lazy, thr, register_task_handle, getf>>
getVars == <<register_task_handle, getf>>
rtVars == <<impls, registry, lazy, thr, getVars>>
libVars == <<BUCKETERS, handed, dist, recorded, called, rtVars>>

\* ---------------------------------------------------------- Metric (cells)

\* enum Value: the variants used here, each with its payload v.
Value_Bool(b) == [type |-> "Bool", v |-> b]
Value_Int(n) == [type |-> "Int", v |-> n]
Value_Dist(d) == [type |-> "Dist", v |-> d]

\* Cell, as the mutation that creates it builds it at time now.
Cell(value, now) == [value |-> value, start_timestamp |-> now, update_timestamp |-> now]

NoCells == [f \in FieldSets |-> None]

\* Metric::new
Metric_new(name, config) == [name |-> name, config |-> config, cells |-> NoCells]

\* Metric::is_empty
Metric_is_empty(metric) == \A f \in FieldSets : metric.cells[f] = None

\* Metric::get_int (and get_distribution: the typed read of the cell's value;
\* a cell of another variant is a panic, see TypeMismatch)
Metric_get_int(metric, f) ==
    IF IsSome(metric.cells[f]) THEN Some(Unwrap(metric.cells[f]).value.v) ELSE None

\* The match on cell.value in the typed accessors and mutators: a cell that
\* exists with another variant than the one asked for is a panic.
TypeMismatch(metric, f, type) ==
    IsSome(metric.cells[f]) /\ Unwrap(metric.cells[f]).value.type /= type

\* A write that builds the cell anew each time, with both timestamps at now.
Metric_set_value_new_cell(metric, value, f, now) ==
    [metric EXCEPT !.cells[f] = Some(Cell(value, now))]

\* A write that leaves the update timestamp of an existing cell alone.
Metric_set_value_keep_time(metric, value, f, now) ==
    IF IsSome(metric.cells[f])
    THEN [metric EXCEPT !.cells[f] = Some([Unwrap(@) EXCEPT !.value = value])]
    ELSE [metric EXCEPT !.cells[f] = Some(Cell(value, now))]

\* Metric::set_value
Metric_set_value(metric, value, f, now) ==
    IF IsSome(metric.cells[f])
    THEN [metric EXCEPT !.cells[f] =
             Some([Unwrap(@) EXCEPT !.value = value, !.update_timestamp = now])]
    ELSE [metric EXCEPT !.cells[f] = Some(Cell(value, now))]

\* An addition that stores the delta in place of the sum.
Metric_add_to_int_overwrite(metric, delta, f, now) ==
    Metric_set_value(metric, Value_Int(delta), f, now)

\* Metric::add_to_int
Metric_add_to_int(metric, delta, f, now) ==
    IF IsSome(metric.cells[f])
    THEN [metric EXCEPT !.cells[f] =
             Some([Unwrap(@) EXCEPT !.value = Value_Int(@.v + delta), !.update_timestamp = now])]
    ELSE [metric EXCEPT !.cells[f] = Some(Cell(Value_Int(delta), now))]

\* Metric::delete_value: the metric without the cell
Metric_delete_value(metric, f) == [metric EXCEPT !.cells[f] = None]

\* ------------------------------------------------------------------ Entity

NoMetrics == [m \in MetricNames |-> None]

\* Entity::new: pin_count is AtomicUsize::default() = 0, the metrics set is
\* empty and its mutex (lock: the owning task, 0 when free) is free.
Entity_new(labels) ==
    [labels |-> labels, pin_count |-> 0, metrics |-> NoMetrics, lock |-> 0]

\* pin_count is a usize and fetch_sub wraps: the model keeps the signed
\* representative of the value modulo 2^64 (-1 stands for usize::MAX), so
\* "pin_count > 0" on the usize is "/= 0" here.
is_pinned(e) == e.pin_count /= 0

\* Entity::pin (fetch_add)
pin(e) == [e EXCEPT !.pin_count = @ + 1]

\* Entity::unpin (wrapping fetch_sub)
unpin(e) == [e EXCEPT !.pin_count = @ - 1]

metrics_is_empty(e) == \A m \in MetricNames : e.metrics[m] = None

\* Exporter::get_metric_config_internal: unwraps the stored config
get_metric_config_internal(name) == Unwrap(metric_configs[name])

\* Entity::get_int, with the metrics mutex held
Entity_get_int(e, name, f) ==
    IF IsSome(e.metrics[name]) THEN Metric_get_int(Unwrap(e.metrics[name]), f) ELSE None

\* Entity::set_value, with the metrics mutex held: take or create the metric,
\* set the cell, insert the metric back.
Entity_set_value(e, name, value, f, now) ==
    LET metric == IF IsSome(e.metrics[name])
                  THEN Unwrap(e.metrics[name])
                  ELSE Metric_new(name, get_metric_config_internal(name))
    IN [e EXCEPT !.metrics[name] = Some(Metric_set_value(metric, value, f, now))]

\* Entity::add_to_int, with the metrics mutex held
Entity_add_to_int(e, name, delta, f, now) ==
    LET metric == IF IsSome(e.metrics[name])
                  THEN Unwrap(e.metrics[name])
                  ELSE Metric_new(name, get_metric_config_internal(name))
    IN [e EXCEPT !.metrics[name] = Some(Metric_add_to_int(metric, delta, f, now))]

\* Entity::delete_value inserting the metric back even when it is empty: not
\* the code.
Entity_delete_value_keep_empty(e, name, f) ==
    IF IsSome(e.metrics[name])
    THEN [e EXCEPT !.metrics[name] = Some(Metric_delete_value(Unwrap(e.metrics[name]), f))]
    ELSE e

\* Entity::delete_value, the part before the removal check: the metric is
\* taken, the cell removed, and the metric inserted back unless it is empty.
Entity_delete_value(e, name, f) ==
    IF IsSome(e.metrics[name])
    THEN LET metric == Metric_delete_value(Unwrap(e.metrics[name]), f)
         IN [e EXCEPT !.metrics[name] =
                 IF Metric_is_empty(metric) THEN None ELSE Some(metric)]
    ELSE e

\* Entity::delete_metric, the part before the removal check
Entity_delete_metric(e, name) == [e EXCEPT !.metrics[name] = None]

\* Entity::clear, the part before the removal check
Entity_clear(e) == [e EXCEPT !.metrics = NoMetrics]

\* ---------------------------------------------------------------- Exporter

\* entities.get(labels): the object of the set with these labels, 0 if none
\* (the set is ordered by labels and holds at most one object per labels).
Lookup(labels) ==
    IF \E o \in entities : heap[o].labels = labels
    THEN CHOOSE o \in entities : heap[o].labels = labels
    ELSE 0

\* Exporter::get_int as one read of the store (no operation in flight)
Exporter_get_int(labels, name, f) ==
    IF Lookup(labels) = 0 THEN None ELSE Entity_get_int(heap[Lookup(labels)], name, f)

\* MetricConfig::default()
MetricConfig_default ==
    [cumulative |-> FALSE, skip_stable_cells |-> FALSE, delta_mode |-> FALSE,
     user_timestamps |-> FALSE, bucketer |-> None]

\* The metric configs used besides the default one.
MetricConfig_cumulative == [MetricConfig_default EXCEPT !.cumulative = TRUE]
MetricConfigs == {MetricConfig_default, MetricConfig_cumulative}

\* Result<()>: Ok(()) and the error of define_metric
Ok == <<"Ok", "()">>
Err_AlreadyDefined == <<"Err", "metric is already defined">>

\* A definition that replaces the config of a defined name.
define_metric_overwrite(configs, name, config) ==
    [configs |-> [configs EXCEPT ![name] = Some(config)], result |-> Ok]

\* A redundant definition that replaces the config of a defined name.
define_metric_redundant_overwrite(configs, name, config) ==
    [configs EXCEPT ![name] = Some(config)]

\* Exporter::define_metric: the configs afterwards and the result
define_metric(configs, name, config) ==
    IF IsSome(configs[name])
    THEN [configs |-> configs, result |-> Err_AlreadyDefined]
    ELSE [configs |-> [configs EXCEPT ![name] = Some(config)], result |-> Ok]

\* Exporter::get_metric_config
get_metric_config(name) == metric_configs[name]

\* A redundant definition that defines nothing: not the code.
define_metric_redundant_skipped(configs, name, config) == configs

\* Exporter::define_metric_redundant: the config map afterwards
define_metric_redundant(configs, name, config) ==
    IF configs[name] = None THEN [configs EXCEPT ![name] = Some(config)] ELSE configs

\* EntityPin::new: stores the Arc; the entity is handed out as it is.
EntityPin_new(e) == e

\* ------------------------------------------- tasks calling the Exporter

Idle == [kind |-> "idle", e |-> "-", m |-> "-", f |-> "-", v |-> 0, now |-> 0]
\* The arguments of an operation, with the time it read from the clock.
Call(kind, e, m, f, v) == [kind |-> kind, e |-> e, m |-> m, f |-> f, v |-> v, now |-> clock]
NoRes == [ret |-> None]
\* A bool that an operation returns, written so that it compares with the
\* Options other operations return.
Bool(b) == <<"bool", b>>
NothingApplied == [m \in MetricNames |-> NoCells]

\* The writer holds an EntityPin from the return of get_pinned_entity to the
\* drop of the handle at the end of the statement.
HoldsPin(t) == pc[t] \in {"Entity_set_value", "Entity_add_to_int", "drop_EntityPin"}

InFlight(t) == pc[t] /= "idle"

\* The operation of task t returns ret.
Return(t, ret) ==
    /\ pc' = [pc EXCEPT ![t] = "idle"]
    /\ res' = [res EXCEPT ![t] = [ret |-> ret]]
    /\ op' = [op EXCEPT ![t] = Idle]
    /\ obj' = [obj EXCEPT ![t] = 0]
    /\ iter' = [iter EXCEPT ![t] = {}]

Begin(t, call, first) ==
    /\ pc[t] = "idle"
    /\ nops < MaxOps
    /\ nops' = nops + 1
    /\ pc' = [pc EXCEPT ![t] = first]
    /\ op' = [op EXCEPT ![t] = call]
    /\ res' = [res EXCEPT ![t] = NoRes]
    /\ UNCHANGED <<obj, iter, expVars, lastApplied>>
    /\ UNCHANGED <<bufVars, clock, hist, libVars>>

\* Gauge::set on an integer gauge: the facade's first use defines the metric
\* (GaugeImpl::new, define_metric_redundant), then Exporter::set_int is called.
set_int(t, e, m, v, f) ==
    /\ pc[t] = "idle"
    /\ nops < MaxOps
    /\ nops' = nops + 1
    /\ metric_configs' = define_metric_redundant(metric_configs, m, MetricConfig_default)
    /\ pc' = [pc EXCEPT ![t] = "get_pinned_entity"]
    /\ op' = [op EXCEPT ![t] = Call("set_int", e, m, f, v)]
    /\ res' = [res EXCEPT ![t] = NoRes]
    /\ UNCHANGED <<obj, iter, entities, entities_lock, heap, lastApplied>>
    /\ UNCHANGED <<bufVars, clock, hist, libVars>>

\* Counter::increment_by on the unbuffered counter: the facade's construction
\* defines the metric (define_metric_redundant), then Exporter::add_to_int is
\* called.
add_to_int(t, e, m, delta, f) ==
    /\ pc[t] = "idle"
    /\ nops < MaxOps
    /\ nops' = nops + 1
    /\ metric_configs' = define_metric_redundant(metric_configs, m, MetricConfig_default)
    /\ pc' = [pc EXCEPT ![t] = "get_pinned_entity"]
    /\ op' = [op EXCEPT ![t] = Call("add_to_int", e, m, f, delta)]
    /\ res' = [res EXCEPT ![t] = NoRes]
    /\ UNCHANGED <<obj, iter, entities, entities_lock, heap, lastApplied>>
    /\ UNCHANGED <<bufVars, clock, hist, libVars>>

\* Exporter::define_metric, define_metric_redundant or get_metric_config is
\* called: the caller goes for the mutex of the configs.
CallConfigs(t, kind, name, config) ==
    /\ pc[t] = "idle"
    /\ nops < MaxOps
    /\ nops' = nops + 1
    /\ pc' = [pc EXCEPT ![t] = kind]
    /\ op' = [op EXCEPT ![t] = [kind |-> kind, e |-> "-", m |-> name, f |-> "-",
                                v |-> 0, now |-> 0, config |-> config]]
    /\ res' = [res EXCEPT ![t] = NoRes]
    /\ UNCHANGED <<obj, iter, expVars, lastApplied>>
    /\ UNCHANGED <<bufVars, clock, hist, libVars>>

\* Exporter::define_metric, with the mutex of the configs
DefineMetric(t) ==
    /\ pc[t] = "define_metric"
    /\ LET r == define_metric(metric_configs, op[t].m, op[t].config)
       IN /\ metric_configs' = r.configs
          /\ Return(t, r.result)
    /\ UNCHANGED <<entities, entities_lock, heap, nops, lastApplied>>
    /\ UNCHANGED <<bufVars, clock, hist, libVars>>

\* Exporter::define_metric_redundant, with the mutex of the configs
DefineMetricRedundant(t) ==
    /\ pc[t] = "define_metric_redundant"
    /\ metric_configs' = define_metric_redundant(metric_configs, op[t].m, op[t].config)
    /\ Return(t, None)
    /\ UNCHANGED <<entities, entities_lock, heap, nops, lastApplied>>
    /\ UNCHANGED <<bufVars, clock, hist, libVars>>

\* Exporter::get_metric_config, with the mutex of the configs
GetMetricConfig(t) ==
    /\ pc[t] = "get_metric_config"
    /\ Return(t, get_metric_config(op[t].m))
    /\ UNCHANGED <<expVars, nops, lastApplied>>
    /\ UNCHANGED <<bufVars, clock, hist, libVars>>

\* SystemTime passes.
Advance ==
    /\ clock < MaxClock
    /\ clock' = clock + 1
    /\ UNCHANGED <<expVars, entities_lock, pc, op, obj, iter, res, nops, lastApplied, hist,
                 libVars>>
    /\ UNCHANGED bufVars

\* Exporter::get_int is called.
get_int(t, e, m, f) == Begin(t, Call("get_int", e, m, f, 0), "get_ephemeral_entity")

\* Exporter::delete_value is called.
delete_value(t, e, m, f) ==
    Begin(t, Call("delete_value", e, m, f, 0), "get_ephemeral_entity")

\* Exporter::delete_metric_from_entity is called.
delete_metric_from_entity(t, e, m) ==
    Begin(t, Call("delete_metric_from_entity", e, m, "-", 0), "get_ephemeral_entity")

\* Exporter::delete_entity is called.
delete_entity(t, e) ==
    Begin(t, Call("delete_entity", e, "-", "-", 0), "get_ephemeral_entity")

\* Exporter::delete_metric is called.
delete_metric(t, m) ==
    Begin(t, Call("delete_metric", "-", m, "-", 0), "delete_metric_lock")

\* Exporter::get_pinned_entity: under the entities mutex, find the entity or
\* insert a new one, and wrap it in an EntityPin.
get_pinned_entity(t) ==
    /\ pc[t] = "get_pinned_entity"
    /\ entities_lock = 0
    /\ LET o == Lookup(op[t].e) IN
        IF o /= 0
        THEN /\ heap' = [heap EXCEPT ![o] = EntityPin_new(@)]
             /\ obj' = [obj EXCEPT ![t] = o]
             /\ UNCHANGED entities
        ELSE /\ heap' = Append(heap, EntityPin_new(Entity_new(op[t].e)))
             /\ entities' = entities \cup {Len(heap) + 1}
             /\ obj' = [obj EXCEPT ![t] = Len(heap) + 1]
    /\ pc' = [pc EXCEPT ![t] = IF op[t].kind = "add_to_int"
                               THEN "Entity_add_to_int" ELSE "Entity_set_value"]
    /\ UNCHANGED <<metric_configs, entities_lock, op, iter, res, nops, lastApplied>>
    /\ UNCHANGED <<bufVars, clock, hist, libVars>>

\* Entity::set_value on the pinned entity: lock its metrics, write the cell.
EntitySetValue(t) ==
    /\ pc[t] = "Entity_set_value"
    /\ heap[obj[t]].lock = 0
    /\ heap' = [heap EXCEPT ![obj[t]] = Entity_set_value(@, op[t].m, Value_Int(op[t].v), op[t].f, op[t].now)]
    /\ lastApplied' = [lastApplied EXCEPT ![heap[obj[t]].labels][op[t].m][op[t].f] = Some(op[t].v)]
    /\ hist' = [hist EXCEPT !.mutated = TRUE,
                            !.written[heap[obj[t]].labels][op[t].m][op[t].f] = op[t].now]
    /\ pc' = [pc EXCEPT ![t] = "drop_EntityPin"]
    /\ UNCHANGED <<metric_configs, entities, entities_lock, op, obj, iter, res, nops>>
    /\ UNCHANGED <<bufVars, clock, libVars>>

\* Entity::add_to_int on the pinned entity: lock its metrics, add to the cell.
EntityAddToInt(t) ==
    /\ pc[t] = "Entity_add_to_int"
    /\ heap[obj[t]].lock = 0
    /\ heap' = [heap EXCEPT ![obj[t]] = Entity_add_to_int(@, op[t].m, op[t].v, op[t].f, op[t].now)]
    /\ lastApplied' = [lastApplied EXCEPT ![heap[obj[t]].labels][op[t].m][op[t].f] =
                          Some((IF IsSome(@) THEN Unwrap(@) ELSE 0) + op[t].v)]
    /\ hist' = [hist EXCEPT !.mutated = TRUE,
                            !.written[heap[obj[t]].labels][op[t].m][op[t].f] = op[t].now]
    /\ pc' = [pc EXCEPT ![t] = "drop_EntityPin"]
    /\ UNCHANGED <<metric_configs, entities, entities_lock, op, obj, iter, res, nops>>
    /\ UNCHANGED <<bufVars, clock, libVars>>

\* The future of a set_* / add_* call is dropped at an await before its cell
\* mutation: at entities.lock().await inside get_pinned_entity nothing is
\* held yet; at metrics.lock().await the EntityPin is dropped with it.
Cancel(t) ==
    /\ pc[t] \in {"get_pinned_entity", "Entity_set_value", "Entity_add_to_int"}
    /\ IF pc[t] = "get_pinned_entity"
       THEN UNCHANGED heap
       ELSE heap' = [heap EXCEPT ![obj[t]] = unpin(@)]
    /\ Return(t, None)
    /\ UNCHANGED <<metric_configs, entities, entities_lock, nops, lastApplied>>
    /\ UNCHANGED <<bufVars, clock, hist, libVars>>

\* impl Drop for EntityPin, at the end of the statement: unpin.
DropEntityPin(t) ==
    /\ pc[t] = "drop_EntityPin"
    /\ heap' = [heap EXCEPT ![obj[t]] = unpin(@)]
    /\ Return(t, None)
    /\ UNCHANGED <<metric_configs, entities, entities_lock, nops, lastApplied>>
    /\ UNCHANGED <<bufVars, clock, hist, libVars>>

\* A lookup that inserts the entity it does not find, as get_pinned_entity
\* does: not what the read paths do.
get_ephemeral_entity_or_insert(t) ==
    /\ pc[t] = "get_ephemeral_entity"
    /\ entities_lock = 0
    /\ LET o == Lookup(op[t].e) IN
        IF o = 0
        THEN /\ heap' = Append(heap, Entity_new(op[t].e))
             /\ entities' = entities \cup {Len(heap) + 1}
             /\ Return(t, IF op[t].kind \in {"get_int", "delete_value"} THEN None ELSE Bool(FALSE))
        ELSE /\ obj' = [obj EXCEPT ![t] = o]
             /\ pc' = [pc EXCEPT ![t] =
                    CASE op[t].kind = "get_int" -> "Entity_get_int"
                      [] op[t].kind = "delete_value" -> "Entity_delete_value"
                      [] op[t].kind = "delete_metric_from_entity" -> "Entity_delete_metric"
                      [] OTHER -> "Entity_clear"]
             /\ UNCHANGED <<op, iter, res, heap, entities>>
    /\ UNCHANGED <<metric_configs, entities_lock, nops, lastApplied>>
    /\ UNCHANGED <<bufVars, clock, hist, libVars>>

\* Exporter::get_ephemeral_entity: under the entities mutex, clone the Arc of
\* the entity if it exists; the caller returns None / false if it does not.
get_ephemeral_entity(t) ==
    /\ pc[t] = "get_ephemeral_entity"
    /\ entities_lock = 0
    /\ LET o == Lookup(op[t].e) IN
        IF o = 0
        THEN Return(t, IF op[t].kind \in {"get_int", "delete_value"} THEN None ELSE Bool(FALSE))
        ELSE /\ obj' = [obj EXCEPT ![t] = o]
             /\ pc' = [pc EXCEPT ![t] =
                    CASE op[t].kind = "get_int" -> "Entity_get_int"
                      [] op[t].kind = "delete_value" -> "Entity_delete_value"
                      [] op[t].kind = "delete_metric_from_entity" -> "Entity_delete_metric"
                      [] OTHER -> "Entity_clear"]
             /\ UNCHANGED <<op, iter, res>>
    /\ UNCHANGED <<expVars, nops, lastApplied>>
    /\ UNCHANGED <<bufVars, clock, hist, libVars>>

\* Entity::get_int: lock the metrics, read the cell.
EntityGetInt(t) ==
    /\ pc[t] = "Entity_get_int"
    /\ heap[obj[t]].lock = 0
    /\ Return(t, Entity_get_int(heap[obj[t]], op[t].m, op[t].f))
    /\ UNCHANGED <<expVars, nops, lastApplied>>
    /\ UNCHANGED <<bufVars, clock, hist, libVars>>

\* The end of Entity::delete_value / delete_metric / clear on entity o, whose
\* metrics are now those of e: with remove set (the entity is to be removed)
\* the task goes on to parent.remove_entity, still holding the metrics mutex.
AfterDelete(t, o, e, remove, ret) ==
    IF remove
    THEN /\ heap' = [heap EXCEPT ![o] = [e EXCEPT !.lock = t]]
         /\ pc' = [pc EXCEPT ![t] = "remove_entity"]
         /\ res' = [res EXCEPT ![t] = [ret |-> ret]]
         /\ obj' = [obj EXCEPT ![t] = o]
         /\ UNCHANGED <<op, iter>>
    ELSE /\ heap' = [heap EXCEPT ![o] = e]
         /\ Return(t, ret)

\* Entity::delete_value
EntityDeleteValue(t) ==
    /\ pc[t] = "Entity_delete_value"
    /\ heap[obj[t]].lock = 0
    /\ LET old == heap[obj[t]]
           e == Entity_delete_value(old, op[t].m, op[t].f)
       IN AfterDelete(t, obj[t], e, metrics_is_empty(e) /\ ~is_pinned(e),
                      Entity_get_int(old, op[t].m, op[t].f))
    /\ lastApplied' = [lastApplied EXCEPT ![heap[obj[t]].labels][op[t].m][op[t].f] = None]
    /\ UNCHANGED <<metric_configs, entities, entities_lock, nops>>
    /\ UNCHANGED <<bufVars, clock, hist, libVars>>

\* Entity::delete_metric, called by delete_metric_from_entity
EntityDeleteMetric(t) ==
    /\ pc[t] = "Entity_delete_metric"
    /\ heap[obj[t]].lock = 0
    /\ LET old == heap[obj[t]]
           e == Entity_delete_metric(old, op[t].m)
       IN AfterDelete(t, obj[t], e, metrics_is_empty(e) /\ ~is_pinned(e),
                      Bool(IsSome(old.metrics[op[t].m])))
    /\ lastApplied' = [lastApplied EXCEPT ![heap[obj[t]].labels][op[t].m] = NoCells]
    /\ UNCHANGED <<metric_configs, entities, entities_lock, nops>>
    /\ UNCHANGED <<bufVars, clock, hist, libVars>>

\* Entity::clear, called by delete_entity
EntityClear(t) ==
    /\ pc[t] = "Entity_clear"
    /\ heap[obj[t]].lock = 0
    /\ LET e == Entity_clear(heap[obj[t]])
       IN AfterDelete(t, obj[t], e, ~is_pinned(e), Bool(TRUE))
    /\ lastApplied' = [lastApplied EXCEPT ![heap[obj[t]].labels] = NothingApplied]
    /\ UNCHANGED <<metric_configs, entities, entities_lock, nops>>
    /\ UNCHANGED <<bufVars, clock, hist, libVars>>

\* Exporter::remove_entity, awaited by the entity with its metrics mutex held:
\* lock the entities mutex and remove the entity of these labels if it is not
\* pinned. A task that already holds the entities mutex (delete_metric) waits
\* here for itself: the mutex is not re-entrant.
RemoveEntity(t) ==
    /\ pc[t] = "remove_entity"
    /\ entities_lock = 0
    /\ LET x == Lookup(heap[obj[t]].labels) IN
        entities' = IF x /= 0 /\ ~is_pinned(heap[x]) THEN entities \ {x} ELSE entities
    /\ heap' = [heap EXCEPT ![obj[t]].lock = 0]
    /\ IF op[t].kind = "delete_metric"
       THEN /\ pc' = [pc EXCEPT ![t] = "delete_metric_loop"]
            /\ iter' = [iter EXCEPT ![t] = @ \ {obj[t]}]
            /\ UNCHANGED <<op, obj, res>>
       ELSE Return(t, res[t].ret)
    /\ UNCHANGED <<metric_configs, entities_lock, nops, lastApplied>>
    /\ UNCHANGED <<bufVars, clock, hist, libVars>>

\* Exporter::delete_metric: lock the entities mutex and iterate the set.
DeleteMetricLock(t) ==
    /\ pc[t] = "delete_metric_lock"
    /\ entities_lock = 0
    /\ entities_lock' = t
    /\ iter' = [iter EXCEPT ![t] = entities]
    /\ pc' = [pc EXCEPT ![t] = "delete_metric_loop"]
    /\ UNCHANGED <<metric_configs, entities, heap, op, obj, res, nops, lastApplied>>
    /\ UNCHANGED <<bufVars, clock, hist, libVars>>

\* The next entity of the iteration, in the order of the set (by labels).
NextInIter(t) ==
    CHOOSE o \in iter[t] :
        \A x \in iter[t] : LabelRank(heap[o].labels) <= LabelRank(heap[x].labels)

\* One round of the loop of Exporter::delete_metric: entity.delete_metric.
DeleteMetricVisit(t) ==
    /\ pc[t] = "delete_metric_loop"
    /\ iter[t] /= {}
    /\ LET o == NextInIter(t)
           e == Entity_delete_metric(heap[o], op[t].m)
       IN /\ heap[o].lock = 0
          /\ lastApplied' = [lastApplied EXCEPT ![heap[o].labels][op[t].m] = NoCells]
          /\ IF metrics_is_empty(e) /\ ~is_pinned(e)
             THEN /\ heap' = [heap EXCEPT ![o] = [e EXCEPT !.lock = t]]
                  /\ pc' = [pc EXCEPT ![t] = "remove_entity"]
                  /\ obj' = [obj EXCEPT ![t] = o]
                  /\ UNCHANGED iter
             ELSE /\ heap' = [heap EXCEPT ![o] = e]
                  /\ iter' = [iter EXCEPT ![t] = @ \ {o}]
                  /\ UNCHANGED <<pc, obj>>
    /\ UNCHANGED <<metric_configs, entities, entities_lock, op, res, nops>>
    /\ UNCHANGED <<bufVars, clock, hist, libVars>>

\* The end of Exporter::delete_metric: the entities mutex is released.
DeleteMetricUnlock(t) ==
    /\ pc[t] = "delete_metric_loop"
    /\ iter[t] = {}
    /\ entities_lock' = 0
    /\ Return(t, Bool(TRUE))
    /\ UNCHANGED <<metric_configs, entities, heap, nops, lastApplied>>
    /\ UNCHANGED <<bufVars, clock, hist, libVars>>


\* ------------------------------------------------- buffered metric values

\* The facades the program constructs: two buffered Counters that share a
\* name and one buffered EventMetric.
InstanceSeq ==
    << [kind |-> "counter", name |-> "/c"],
       [kind |-> "counter", name |-> "/c"],
       [kind |-> "event", name |-> "/d"] >>
Instances == DOMAIN InstanceSeq
Kind(i) == InstanceSeq[i].kind
Name(i) == InstanceSeq[i].name
KindOfName(n) == IF n = "/c" THEN "counter" ELSE "event"

Keys == {<<"e1", "f1">>, <<"e1", "f2">>, <<"e2", "f1">>}
Deltas == {1, 2}
Samples == {3}
Times == {1}

\* Counter::new / EventMetric::new: the overrides applied to the given config
Counter_config == [MetricConfig_default EXCEPT !.cumulative = TRUE, !.user_timestamps = TRUE]
EventMetric_config ==
    [MetricConfig_default EXCEPT !.cumulative = TRUE, !.user_timestamps = TRUE,
                                 !.bucketer = Some("default")]
Config(i) == IF Kind(i) = "counter" THEN Counter_config ELSE EventMetric_config

\* A Distribution, by its sample count and sum.
Distribution_new == [count |-> 0, sum |-> 0]

\* Distribution::record_to_bucket: count += times, sum += sample * times
Distribution_record_to_bucket(d, sample, times) ==
    [count |-> d.count + times, sum |-> d.sum + sample * times]

\* Distribution::add (same bucketer): counts and sums are added
Distribution_add(d, other) ==
    [count |-> d.count + other.count, sum |-> d.sum + other.sum]

\* The zero and the sum of buffered values of one kind of metric.
Zero(kind) == IF kind = "counter" THEN 0 ELSE Distribution_new
Plus(kind, a, b) == IF kind = "counter" THEN a + b ELSE Distribution_add(a, b)
OrZero(kind, o) == IF IsSome(o) THEN Unwrap(o) ELSE Zero(kind)
\* Some(a + b) where None counts as absent: None only if both are None.
PlusOpt(kind, a, b) ==
    IF a = None THEN b ELSE IF b = None THEN a
    ELSE Some(Plus(kind, Unwrap(a), Unwrap(b)))
\* a holds at least what b holds.
Covers(kind, a, b) ==
    \/ b = None
    \/ /\ IsSome(a)
       /\ IF kind = "counter" THEN Unwrap(a) >= Unwrap(b)
          ELSE Unwrap(a).count >= Unwrap(b).count /\ Unwrap(a).sum >= Unwrap(b).sum

NoData == [k \in Keys |-> None]

\* Faulty variants of the code below, used to see that the properties notice
\* them: a get and a tick that flush nothing, a fetch that leaves the buffer
\* in place, an unregister that drops the whole entry of the name.
get_flush_queue_none(n) == <<>>
tick_flush_queue_none(k) == <<>>
fetch_copy(buf) == buf
unregister_metric_name(m, name, i) == [m EXCEPT ![name] = None]

\* CounterImpl::increment_by: the local buffer afterwards
CounterImpl_increment_by(buf, key, delta) ==
    IF IsSome(buf[key])
    THEN [buf EXCEPT ![key] = Some(Unwrap(@) + delta)]
    ELSE [buf EXCEPT ![key] = Some(delta)]

\* EventMetricImpl::record: the local buffer afterwards
EventMetricImpl_record(buf, key, sample, times) ==
    IF IsSome(buf[key])
    THEN [buf EXCEPT ![key] = Some(Distribution_record_to_bucket(Unwrap(@), sample, times))]
    ELSE [buf EXCEPT ![key] = Some(Distribution_record_to_bucket(Distribution_new, sample, times))]

\* fetch: the local buffer left behind by mem::replace (the old one is returned)
fetch(buf) == NoData

\* flush_impl: the fetched buffer regrouped by entity (data_by_entity)
data_by_entity(buf) ==
    [e \in EntityLabels |-> [f \in FieldSets |->
        IF <<e, f>> \in Keys THEN buf[<<e, f>>] ELSE None]]

NoDeltas == [f \in FieldSets |-> None]
NoBatch == [e \in EntityLabels |-> NoDeltas]
Pending(by_entity) == {e \in EntityLabels : by_entity[e] /= NoDeltas}
\* The next entity of the loop over data_by_entity, in the order of the map.
FirstPending(by_entity) ==
    CHOOSE e \in Pending(by_entity) :
        \A x \in Pending(by_entity) : LabelRank(e) <= LabelRank(x)

\* Exporter::get_distribution as one read of the store
Exporter_get_distribution(labels, name, f) == Exporter_get_int(labels, name, f)

\* Metric: the merge of one delta of a bulk update into its cell (add_to_int
\* for an integer; a distribution cell is created from the delta or merged
\* with Distribution::add).
Metric_add_delta(kind, metric, delta, f, now) ==
    IF kind = "counter" THEN Metric_add_to_int(metric, delta, f, now)
    ELSE IF IsSome(metric.cells[f])
         THEN [metric EXCEPT !.cells[f] =
                  Some([Unwrap(@) EXCEPT !.value = Value_Dist(Distribution_add(@.v, delta)),
                                         !.update_timestamp = now])]
         ELSE [metric EXCEPT !.cells[f] = Some(Cell(Value_Dist(delta), now))]

\* Entity: a bulk update of one metric, with the metrics mutex held
Entity_add_deltas(kind, e, name, deltas, now) ==
    LET metric == IF IsSome(e.metrics[name])
                  THEN Unwrap(e.metrics[name])
                  ELSE Metric_new(name, get_metric_config_internal(name))
        cells == [f \in FieldSets |->
                    IF IsSome(deltas[f])
                    THEN Metric_add_delta(kind, metric, Unwrap(deltas[f]), f, now).cells[f]
                    ELSE metric.cells[f]]
    IN [e EXCEPT !.metrics[name] = Some([metric EXCEPT !.cells = cells])]

\* Exporter::add_int_deltas / add_distribution_deltas: a write operation on the
\* pinned entity that merges every delta into its cell; the result is the
\* entity objects and the entities set afterwards.
add_deltas(kind, labels, name, deltas) ==
    LET o == Lookup(labels)
        e == unpin(Entity_add_deltas(kind,
                 EntityPin_new(IF o = 0 THEN Entity_new(labels) ELSE heap[o]),
                 name, deltas, clock))
    IN IF o = 0
       THEN [heap |-> Append(heap, e), entities |-> entities \cup {Len(heap) + 1}]
       ELSE [heap |-> [heap EXCEPT ![o] = e], entities |-> entities]

\* The match in Metric::add_to_int / add_to_distribution reaches panic!(): a
\* cell to merge a delta into exists with a value of another variant.
add_deltas_panics(kind, labels, name, deltas) ==
    LET o == Lookup(labels) IN
    /\ o /= 0
    /\ IsSome(heap[o].metrics[name])
    /\ \E f \in FieldSets :
          /\ IsSome(deltas[f])
          /\ TypeMismatch(Unwrap(heap[o].metrics[name]), f,
                          IF kind = "counter" THEN "Int" ELSE "Dist")

\* Exporter::set_value run to completion by one caller: the entity objects
\* and the entities set afterwards.
Exporter_set_value(labels, name, value, f) ==
    LET o == Lookup(labels)
        e == unpin(Entity_set_value(
                 EntityPin_new(IF o = 0 THEN Entity_new(labels) ELSE heap[o]),
                 name, value, f, clock))
    IN IF o = 0
       THEN [heap |-> Append(heap, e), entities |-> entities \cup {Len(heap) + 1}]
       ELSE [heap |-> [heap EXCEPT ![o] = e], entities |-> entities]

\* ------------------------------------------------------------ MetricManager

\* MetricManager::register_metric: the registry afterwards (the instance's id
\* is new under its name)
register_metric(m, name, i) ==
    IF IsSome(m[name])
    THEN [m EXCEPT ![name] = Some(Unwrap(@) \cup {i})]
    ELSE [m EXCEPT ![name] = Some({i})]

\* MetricManager::unregister_metric: the registry afterwards, for a name that
\* has an entry
unregister_metric(m, name, i) == [m EXCEPT ![name] = Some(Unwrap(@) \ {i})]

\* The instances of S in the order of their ids (the order of the BTreeMap).
RECURSIVE SortById(_)
SortById(S) ==
    IF S = {} THEN <<>>
    ELSE LET i == CHOOSE x \in S : \A y \in S : Unwrap(inner[x]).id <= Unwrap(inner[y]).id
         IN <<i>> \o SortById(S \ {i})

Registered(n) == IF IsSome(mgr_metrics[n]) THEN Unwrap(mgr_metrics[n]) ELSE {}
IsRegistered(i) == i \in Registered(Name(i))

\* MetricManager::get_int / get_distribution: the instances it flushes
get_flush_queue(n) == SortById(Registered(n))

\* MetricManager::start, one tick: the instances it flushes, name by name
RECURSIVE tick_flush_queue(_)
tick_flush_queue(k) ==
    IF k > Len(MetricNameSeq) THEN <<>>
    ELSE SortById(Registered(MetricNameSeq[k])) \o tick_flush_queue(k + 1)

NoFlush == [queue |-> <<>>, cur |-> 0, by_entity |-> NoBatch]
FlushDone == flush.queue = <<>> /\ Pending(flush.by_entity) = {}

NoSnap == [i \in Instances |-> None]
RdIdle == [pc |-> "idle", inst |-> 0, name |-> "-", key |-> <<"-", "-">>,
           snap |-> NoSnap, res |-> None]

TickIdle == [pc |-> "idle", reg |-> {}, snap |-> [i \in Instances |-> NoData]]

expTaskVars == <<entities_lock, pc, op, obj, iter, res, nops, lastApplied, clock, hist,
                 libVars>>

\* ------------------------------------------- buffered metrics: the actions

\* Lazy::deref on the facade's inner value: the first use runs the factory
\* (CounterImpl::new / EventMetricImpl::new), which takes an id from IOTA and
\* posts the registration task.
Deref(i) ==
    IF inner[i] = None
    THEN /\ inner' = [inner EXCEPT ![i] = Some([id |-> iota[Kind(i)]])]
         /\ iota' = [iota EXCEPT ![Kind(i)] = @ + 1]
         /\ register_task' = [register_task EXCEPT ![i] = "posted"]
    ELSE UNCHANGED <<inner, iota, register_task>>

\* Counter::increment_by
IncrementBy(i, key, delta) ==
    /\ Kind(i) = "counter"
    /\ ~dropped[i]
    /\ ncalls < MaxCalls
    /\ ncalls' = ncalls + 1
    /\ Deref(i)
    /\ data' = [data EXCEPT ![i] = CounterImpl_increment_by(@, key, delta)]
    /\ total' = [total EXCEPT ![i] = CounterImpl_increment_by(@, key, delta)]
    /\ UNCHANGED <<dropped, unregister_task, mgr_metrics, mgr_lock, flush, tick, rd, applied>>
    /\ UNCHANGED <<expVars, expTaskVars>>

\* EventMetric::record_many
Record(i, key, sample, times) ==
    /\ Kind(i) = "event"
    /\ ~dropped[i]
    /\ ncalls < MaxCalls
    /\ ncalls' = ncalls + 1
    /\ Deref(i)
    /\ data' = [data EXCEPT ![i] = EventMetricImpl_record(@, key, sample, times)]
    /\ total' = [total EXCEPT ![i] = EventMetricImpl_record(@, key, sample, times)]
    /\ UNCHANGED <<dropped, unregister_task, mgr_metrics, mgr_lock, flush, tick, rd, applied>>
    /\ UNCHANGED <<expVars, expTaskVars>>

\* The registration task, first part: register_metric defines the metric.
RegisterDefine(i) ==
    /\ register_task[i] = "posted"
    /\ metric_configs' = define_metric_redundant(metric_configs, Name(i), Config(i))
    /\ register_task' = [register_task EXCEPT ![i] = "defined"]
    /\ UNCHANGED <<inner, dropped, iota, data, unregister_task, mgr_metrics, mgr_lock,
                   flush, tick, rd, ncalls, total, applied>>
    /\ UNCHANGED <<entities, heap, expTaskVars>>

\* The registration task, second part: under the registry mutex, the instance
\* is inserted under its name and id.
RegisterInsert(i) ==
    /\ register_task[i] = "defined"
    /\ mgr_lock = "free"
    /\ mgr_metrics' = register_metric(mgr_metrics, Name(i), i)
    /\ register_task' = [register_task EXCEPT ![i] = "done"]
    /\ UNCHANGED <<inner, dropped, iota, data, unregister_task, mgr_lock,
                   flush, tick, rd, ncalls, total, applied>>
    /\ UNCHANGED <<expVars, expTaskVars>>

\* Dropping a facade. impl Drop for Counter derefs inner and posts the
\* unregister task; EventMetric has no Drop implementation.
Drop(i) ==
    /\ ~dropped[i]
    /\ ncalls < MaxCalls
    /\ ncalls' = ncalls + 1
    /\ rd.inst /= i
    /\ dropped' = [dropped EXCEPT ![i] = TRUE]
    /\ IF Kind(i) = "counter"
       THEN /\ Deref(i)
            /\ unregister_task' = [unregister_task EXCEPT ![i] = "posted"]
       ELSE UNCHANGED <<inner, iota, register_task, unregister_task>>
    /\ UNCHANGED <<data, mgr_metrics, mgr_lock, flush, tick, rd, total, applied>>
    /\ UNCHANGED <<expVars, expTaskVars>>

\* The unregister task: under the registry mutex, unwrap the entry of the name
\* (a panic when there is none) and remove the instance's id from it.
UnregisterTask(i) ==
    /\ unregister_task[i] = "posted"
    /\ mgr_lock = "free"
    /\ IF IsSome(mgr_metrics[Name(i)])
       THEN /\ mgr_metrics' = unregister_metric(mgr_metrics, Name(i), i)
            /\ unregister_task' = [unregister_task EXCEPT ![i] = "done"]
       ELSE /\ unregister_task' = [unregister_task EXCEPT ![i] = "panicked"]
            /\ UNCHANGED mgr_metrics
    /\ UNCHANGED <<inner, dropped, iota, data, register_task, mgr_lock,
                   flush, tick, rd, ncalls, total, applied>>
    /\ UNCHANGED <<expVars, expTaskVars>>

\* MetricManager::start, the loop: a tick fires, the registry is locked and
\* every registered metric is to be flushed.
TickStart ==
    /\ tick.pc = "idle"
    /\ ncalls < MaxCalls
    /\ ncalls' = ncalls + 1
    /\ mgr_lock = "free"
    /\ mgr_lock' = "tick"
    /\ flush' = [NoFlush EXCEPT !.queue = tick_flush_queue(1)]
    /\ tick' = [pc |-> "flushing",
                reg |-> UNION {Registered(n) : n \in MetricNames}, snap |-> total]
    /\ UNCHANGED <<inner, dropped, iota, data, register_task, unregister_task,
                   mgr_metrics, rd, total, applied>>
    /\ UNCHANGED <<expVars, expTaskVars>>

\* flush_impl of the next instance, first part: fetch swaps the local buffer
\* out and the batch is regrouped by entity.
FlushFetch ==
    /\ mgr_lock /= "free"
    /\ flush.queue /= <<>>
    /\ Pending(flush.by_entity) = {}
    /\ LET i == Head(flush.queue) IN
        /\ flush' = [queue |-> Tail(flush.queue), cur |-> i,
                     by_entity |-> data_by_entity(data[i])]
        /\ data' = [data EXCEPT ![i] = fetch(@)]
    /\ UNCHANGED <<inner, dropped, iota, register_task, unregister_task,
                   mgr_metrics, mgr_lock, tick, rd, ncalls, total, applied>>
    /\ UNCHANGED <<expVars, expTaskVars>>

\* flush_impl, one round of the loop over data_by_entity: add_int_deltas /
\* add_distribution_deltas for the next entity.
FlushApply ==
    /\ mgr_lock /= "free"
    /\ Pending(flush.by_entity) /= {}
    /\ LET i == flush.cur
           e == FirstPending(flush.by_entity)
           after == add_deltas(Kind(i), e, Name(i), flush.by_entity[e])
       IN /\ ~add_deltas_panics(Kind(i), e, Name(i), flush.by_entity[e])
          /\ heap' = after.heap
          /\ entities' = after.entities
          /\ flush' = [flush EXCEPT !.by_entity[e] = NoDeltas]
          /\ applied' = [applied EXCEPT ![i] =
                [k \in Keys |-> IF k[1] = e
                                THEN PlusOpt(Kind(i), @[k], flush.by_entity[e][k[2]])
                                ELSE @[k]]]
    /\ UNCHANGED <<inner, dropped, iota, data, register_task, unregister_task,
                   mgr_metrics, mgr_lock, tick, rd, ncalls, total>>
    /\ UNCHANGED <<metric_configs, expTaskVars>>

\* The end of one tick of the loop: the registry mutex is released.
TickEnd ==
    /\ tick.pc = "flushing"
    /\ FlushDone
    /\ mgr_lock' = "free"
    /\ flush' = NoFlush
    /\ tick' = TickIdle
    /\ UNCHANGED <<inner, dropped, iota, data, register_task, unregister_task,
                   mgr_metrics, rd, ncalls, total, applied>>
    /\ UNCHANGED <<expVars, expTaskVars>>

\* flush_impl inside a tick, when the Exporter call panics: nothing in
\* MetricManager::start catches it, so the spawned task ends there. The unwind
\* drops the entity pin, the batch and the registry guard.
FlushPanic ==
    /\ mgr_lock = "tick"
    /\ Pending(flush.by_entity) /= {}
    /\ LET i == flush.cur
           e == FirstPending(flush.by_entity)
       IN /\ add_deltas_panics(Kind(i), e, Name(i), flush.by_entity[e])
          /\ heap' = [heap EXCEPT ![Lookup(e)] = unpin(EntityPin_new(@))]
    /\ mgr_lock' = "free"
    /\ flush' = NoFlush
    /\ tick' = [tick EXCEPT !.pc = "dead"]
    /\ UNCHANGED <<inner, dropped, iota, data, register_task, unregister_task,
                   mgr_metrics, rd, ncalls, total, applied>>
    /\ UNCHANGED <<metric_configs, entities, expTaskVars>>

\* Exporter::set_bool by a client of the Exporter, on any defined metric name.
SetBool(n, key, b) ==
    /\ IsSome(metric_configs[n])
    /\ ncalls < MaxCalls
    /\ ncalls' = ncalls + 1
    /\ LET after == Exporter_set_value(key[1], n, Value_Bool(b), key[2])
       IN /\ heap' = after.heap
          /\ entities' = after.entities
    /\ UNCHANGED <<inner, dropped, iota, data, register_task, unregister_task,
                   mgr_metrics, mgr_lock, flush, tick, rd, total, applied>>
    /\ UNCHANGED <<metric_configs, expTaskVars>>

\* Counter::get / EventMetric::get is called on facade i.
FacadeGet(i, key) ==
    /\ rd.pc = "idle"
    /\ ncalls < MaxCalls
    /\ ncalls' = ncalls + 1
    /\ ~dropped[i]
    /\ Deref(i)
    /\ rd' = [pc |-> "await_registration", inst |-> i, name |-> Name(i), key |-> key,
              snap |-> [j \in Instances |-> total[j][key]], res |-> None]
    /\ UNCHANGED <<dropped, data, unregister_task, mgr_metrics, mgr_lock, flush, tick,
                   total, applied>>
    /\ UNCHANGED <<expVars, expTaskVars>>

\* await_registration: the registration task's handle is awaited.
AwaitRegistration ==
    /\ rd.pc = "await_registration"
    /\ register_task[rd.inst] = "done"
    /\ rd' = [rd EXCEPT !.pc = "lock"]
    /\ UNCHANGED <<inner, dropped, iota, data, register_task, unregister_task,
                   mgr_metrics, mgr_lock, flush, tick, ncalls, total, applied>>
    /\ UNCHANGED <<expVars, expTaskVars>>

\* MetricManager::get_int / get_distribution is called directly.
ManagerGet(n, key) ==
    /\ rd.pc = "idle"
    /\ ncalls < MaxCalls
    /\ ncalls' = ncalls + 1
    /\ rd' = [pc |-> "lock", inst |-> 0, name |-> n, key |-> key,
              snap |-> [j \in Instances |-> total[j][key]], res |-> None]
    /\ UNCHANGED <<inner, dropped, iota, data, register_task, unregister_task,
                   mgr_metrics, mgr_lock, flush, tick, total, applied>>
    /\ UNCHANGED <<expVars, expTaskVars>>

\* MetricManager::get_*: lock the registry; with no entry for the name the
\* result is None, otherwise every instance under the name is to be flushed.
ManagerLock ==
    /\ rd.pc = "lock"
    /\ mgr_lock = "free"
    /\ mgr_lock' = "reader"
    /\ IF IsSome(mgr_metrics[rd.name])
       THEN /\ flush' = [NoFlush EXCEPT !.queue = get_flush_queue(rd.name)]
            /\ rd' = [rd EXCEPT !.pc = "flushing"]
       ELSE /\ rd' = [rd EXCEPT !.pc = "got", !.res = None]
            /\ UNCHANGED flush
    /\ UNCHANGED <<inner, dropped, iota, data, register_task, unregister_task,
                   mgr_metrics, tick, ncalls, total, applied>>
    /\ UNCHANGED <<expVars, expTaskVars>>

\* MetricManager::get_*: after the flushes, the cell is read from the Exporter.
ManagerRead ==
    /\ rd.pc = "flushing"
    /\ FlushDone
    /\ rd' = [rd EXCEPT !.pc = "got",
                        !.res = IF KindOfName(rd.name) = "counter"
                                THEN Exporter_get_int(rd.key[1], rd.name, rd.key[2])
                                ELSE Exporter_get_distribution(rd.key[1], rd.name, rd.key[2])]
    /\ flush' = NoFlush
    /\ UNCHANGED <<inner, dropped, iota, data, register_task, unregister_task,
                   mgr_metrics, mgr_lock, tick, ncalls, total, applied>>
    /\ UNCHANGED <<expVars, expTaskVars>>

\* MetricManager::get_* returns: the registry mutex is released.
ManagerReturn ==
    /\ rd.pc = "got"
    /\ mgr_lock' = "free"
    /\ rd' = RdIdle
    /\ UNCHANGED <<inner, dropped, iota, data, register_task, unregister_task,
                   mgr_metrics, flush, tick, ncalls, total, applied>>
    /\ UNCHANGED <<expVars, expTaskVars>>

\* Nothing has happened yet.
HistInit ==
    [mutated |-> FALSE,
     written |-> [e \in EntityLabels |-> [m \in MetricNames |-> [f \in FieldSets |-> 0]]]]

\* Exporter::default(): no configs, no entities; no operation started.
ExpInit ==
    /\ metric_configs = [m \in MetricNames |-> None]
    /\ entities = {}
    /\ entities_lock = 0
    /\ heap = <<>>
    /\ pc = [t \in Tasks |-> "idle"]
    /\ op = [t \in Tasks |-> Idle]
    /\ obj = [t \in Tasks |-> 0]
    /\ iter = [t \in Tasks |-> {}]
    /\ res = [t \in Tasks |-> NoRes]
    /\ nops = 0
    /\ lastApplied = [e \in EntityLabels |-> NothingApplied]
    /\ clock = 0
    /\ hist = HistInit

\* The facades are constructed and not yet used; the manager's registry is
\* empty and its periodic task is started.
BufInit ==
    /\ inner = [i \in Instances |-> None]
    /\ dropped = [i \in Instances |-> FALSE]
    /\ iota = [counter |-> 0, event |-> 0]
    /\ data = [i \in Instances |-> NoData]
    /\ register_task = [i \in Instances |-> "none"]
    /\ unregister_task = [i \in Instances |-> "none"]
    /\ mgr_metrics = [n \in MetricNames |-> None]
    /\ mgr_lock = "free"
    /\ flush = NoFlush
    /\ tick = TickIdle
    /\ rd = RdIdle
    /\ ncalls = 0
    /\ total = [i \in Instances |-> NoData]
    /\ applied = [i \in Instances |-> NoData]

\* No bucketer was asked for, no library function was called.
LibInit ==
    /\ BUCKETERS = <<>>
    /\ handed = {}
    /\ dist = <<>>
    /\ recorded = <<>>
    /\ called = [fn |-> "none"]

\* Threads that use one facade.
NumThreads == 2
Threads == 1 .. NumThreads
ThreadIdle == [pc |-> "idle", call |-> "-", ret |-> None, path |-> "-"]

\* Lazy::new: not initialized, the factory in its mutex, no value. runs counts
\* the calls of the factory; used tells that a deref was started.
Lazy_new ==
    [initialized |-> FALSE, factory |-> Some("factory"), factory_lock |-> 0,
     value |-> None, runs |-> 0, used |-> FALSE]

\* No implementation object was made; a facade is constructed and not used.
NumGets == 2
Gets == 1 .. NumGets
GetIdle == [pc |-> "idle", inst |-> 0, key |-> <<"-", "-">>, ret |-> None]

\* Mutex::new(None), and register() right after it: unlocked; the handle of
\* the registration task is in it from the making of the instance until an
\* await_registration takes it out.
HandleMutex_new == [owner |-> 0, taken |-> FALSE]

RtInit ==
    /\ register_task_handle = [i \in Instances |-> HandleMutex_new]
    /\ getf = [g \in Gets |-> GetIdle]
    /\ impls = <<>>
    /\ registry = [n \in MetricNames |-> None]
    /\ lazy = Lazy_new
    /\ thr = [t \in Threads |-> ThreadIdle]

Init == ExpInit /\ BufInit /\ LibInit /\ RtInit

\* The Exporter under concurrent callers.
Next ==
    \/ \E t \in Tasks, e \in EntityLabels, m \in MetricNames, f \in FieldSets :
        \/ \E v \in IntValues : set_int(t, e, m, v, f)
        \/ get_int(t, e, m, f)
        \/ delete_value(t, e, m, f)
        \/ delete_metric_from_entity(t, e, m)
        \/ delete_entity(t, e)
        \/ delete_metric(t, m)
    \/ \E t \in Tasks :
        \/ get_pinned_entity(t)
        \/ EntitySetValue(t)
        \/ DropEntityPin(t)
        \/ get_ephemeral_entity(t)
        \/ EntityGetInt(t)
        \/ EntityDeleteValue(t)
        \/ EntityDeleteMetric(t)
        \/ EntityClear(t)
        \/ RemoveEntity(t)
        \/ DeleteMetricLock(t)
        \/ DeleteMetricVisit(t)
        \/ DeleteMetricUnlock(t)

Spec == Init /\ [][Next]_vars

\* The buffered metrics and the MetricManager over the Exporter.
BufNext ==
    \/ \E i \in Instances, k \in Keys :
        \/ \E d \in Deltas : IncrementBy(i, k, d)
        \/ \E x \in Samples, n \in Times : Record(i, k, x, n)
        \/ FacadeGet(i, k)
    \/ \E i \in Instances :
        \/ RegisterDefine(i)
        \/ RegisterInsert(i)
        \/ Drop(i)
        \/ UnregisterTask(i)
    \/ \E n \in MetricNames, k \in Keys : ManagerGet(n, k)
    \/ AwaitRegistration
    \/ ManagerLock
    \/ ManagerRead
    \/ ManagerReturn
    \/ TickStart
    \/ FlushFetch
    \/ FlushApply
    \/ TickEnd

SpecBuf == Init /\ [][BufNext]_vars

\* The periodic flush next to a client that writes cells of its own through
\* the Exporter.
FailNext ==
    \/ \E i \in Instances, k \in Keys :
        \/ \E d \in Deltas : IncrementBy(i, k, d)
        \/ \E x \in Samples, n \in Times : Record(i, k, x, n)
    \/ \E i \in Instances :
        \/ RegisterDefine(i)
        \/ RegisterInsert(i)
    \/ \E n \in MetricNames, k \in Keys : SetBool(n, k, TRUE)
    \/ TickStart
    \/ FlushFetch
    \/ FlushApply
    \/ FlushPanic
    \/ TickEnd

SpecFail == Init /\ [][FailNext]_vars

\* One more caller than in Spec, on one entity.
GcTasks == 1 .. (NumTasks + 1)

\* The Exporter after Gauge::set(e1, "/c", 1, f1) was called on it by the last
\* caller and get_pinned_entity has returned to that caller: the metric is
\* defined, the new entity is in the set and the caller is about to write.
GcInit ==
    /\ metric_configs = define_metric_redundant([m \in MetricNames |-> None],
                                                "/c", MetricConfig_default)
    /\ entities = {1}
    /\ entities_lock = 0
    /\ heap = <<EntityPin_new(Entity_new("e1"))>>
    /\ pc = [t \in GcTasks |-> IF t = NumTasks + 1 THEN "Entity_set_value" ELSE "idle"]
    /\ op = [t \in GcTasks |-> IF t = NumTasks + 1
                                THEN [kind |-> "set_int", e |-> "e1", m |-> "/c",
                                      f |-> "f1", v |-> 1, now |-> 0]
                                ELSE Idle]
    /\ obj = [t \in GcTasks |-> IF t = NumTasks + 1 THEN 1 ELSE 0]
    /\ iter = [t \in GcTasks |-> {}]
    /\ res = [t \in GcTasks |-> NoRes]
    /\ nops = 0
    /\ lastApplied = [e \in EntityLabels |-> NothingApplied]
    /\ clock = 0
    /\ hist = HistInit
    /\ BufInit
    /\ LibInit
    /\ RtInit

\* Writers and deleters of the cells of one entity.
GcNext ==
    \/ \E t \in GcTasks, f \in FieldSets :
        \/ set_int(t, "e1", "/c", 1, f)
        \/ delete_value(t, "e1", "/c", f)
    \/ \E t \in GcTasks, m \in MetricNames : delete_metric_from_entity(t, "e1", m)
    \/ \E t \in GcTasks :
        \/ delete_entity(t, "e1")
        \/ get_pinned_entity(t)
        \/ EntitySetValue(t)
        \/ DropEntityPin(t)
        \/ get_ephemeral_entity(t)
        \/ EntityDeleteValue(t)
        \/ EntityDeleteMetric(t)
        \/ EntityClear(t)
        \/ RemoveEntity(t)

SpecGc == GcInit /\ [][GcNext]_vars

\* Writers, readers and definers of metrics on one entity while time passes;
\* a writer's future may be dropped before it has written.
OpsNext ==
    \/ \E t \in Tasks, f \in FieldSets :
        \/ \E v \in IntValues : set_int(t, "e1", "/c", v, f)
        \/ add_to_int(t, "e1", "/c", 1, f)
        \/ get_int(t, "e1", "/c", f)
    \/ \E t \in Tasks, n \in MetricNames, c \in MetricConfigs :
        \/ CallConfigs(t, "define_metric", n, c)
        \/ CallConfigs(t, "define_metric_redundant", n, c)
        \/ CallConfigs(t, "get_metric_config", n, MetricConfig_default)
    \/ \E t \in Tasks :
        \/ DefineMetric(t)
        \/ DefineMetricRedundant(t)
        \/ GetMetricConfig(t)
        \/ get_pinned_entity(t)
        \/ EntitySetValue(t)
        \/ EntityAddToInt(t)
        \/ DropEntityPin(t)
        \/ Cancel(t)
        \/ get_ephemeral_entity(t)
        \/ EntityGetInt(t)
    \/ Advance

SpecOps == Init /\ [][OpsNext]_vars

\* The deltas of the unbuffered counter's increment_by.
CounterDeltas == {0, 1, 2}

\* One caller using an unbuffered counter "/c" on entity e1, one call after
\* the other: increment_by, get, delete and delete_entity of the facade.
CtrNext ==
    \/ \E f \in FieldSets :
        \/ \E d \in CounterDeltas : add_to_int(1, "e1", "/c", d, f)
        \/ get_int(1, "e1", "/c", f)
        \/ delete_value(1, "e1", "/c", f)
    \/ delete_metric_from_entity(1, "e1", "/c")
    \/ get_pinned_entity(1)
    \/ EntityAddToInt(1)
    \/ DropEntityPin(1)
    \/ get_ephemeral_entity(1)
    \/ EntityGetInt(1)
    \/ EntityDeleteValue(1)
    \/ EntityDeleteMetric(1)

SpecCtr == Init /\ [][CtrNext]_vars

\* ------------------------------------------------------------ f64 values

\* An f64 is modelled by the exact rational it stands for: <<n, d>> in lowest
\* terms with d > 0 (so that equal values are equal tuples); <<0, 0>> is NaN.
\* Rounding is left out: the values used are small integers and halves and
\* what is computed from them.
RECURSIVE Gcd(_, _)
Gcd(a, b) == IF b = 0 THEN a ELSE Gcd(b, a % b)
Abs(x) == IF x < 0 THEN -x ELSE x
NaN == <<0, 0>>
is_nan(x) == x[2] = 0
Rat(n, d) ==
    IF d = 0 THEN NaN
    ELSE LET g == Gcd(Abs(n), Abs(d))
             sgn == IF d < 0 THEN -1 ELSE 1
         IN <<(sgn * n) \div g, (sgn * d) \div g>>
f64(n) == <<n, 1>>
f64_add(x, y) == IF is_nan(x) \/ is_nan(y) THEN NaN ELSE Rat(x[1] * y[2] + y[1] * x[2], x[2] * y[2])
f64_sub(x, y) == IF is_nan(x) \/ is_nan(y) THEN NaN ELSE Rat(x[1] * y[2] - y[1] * x[2], x[2] * y[2])
f64_mul(x, y) == IF is_nan(x) \/ is_nan(y) THEN NaN ELSE Rat(x[1] * y[1], x[2] * y[2])
\* 0.0 / 0.0 is NaN; no other division by zero is made.
f64_div(x, y) == IF is_nan(x) \/ is_nan(y) THEN NaN ELSE Rat(x[1] * y[2], x[2] * y[1])
\* x < y: false when either side is NaN.
f64_lt(x, y) == ~is_nan(x) /\ ~is_nan(y) /\ x[1] * y[2] < y[1] * x[2]
f64_le(x, y) == ~is_nan(x) /\ ~is_nan(y) /\ x[1] * y[2] <= y[1] * x[2]
\* f64::powf with an integral exponent
RECURSIVE powf(_, _)
powf(x, i) ==
    IF i = 0 THEN f64(1)
    ELSE IF i < 0 THEN f64_div(f64(1), powf(x, -i))
    ELSE f64_mul(x, powf(x, i - 1))

\* ------------------------------------------------- Bucketer and its cache

\* Bucketer::MAX_NUM_FINITE_BUCKETS
MAX_NUM_FINITE_BUCKETS == 5000

\* Entries the cache holds at most in one behaviour.
MaxBucketers == 2
\* The bucketers the callers build have MaxBuckets finite buckets.
MaxBuckets == 2

\* A Bucketer is its params (width, growth_factor, scale_factor,
\* num_finite_buckets); a &'static Bucketer is its address in BUCKETERS, the
\* order in which the boxes were allocated.
Bucketer_new(width, growth_factor, scale_factor, num_finite_buckets) ==
    <<width, growth_factor, scale_factor, num_finite_buckets>>
width(b) == b[1]
growth_factor(b) == b[2]
scale_factor(b) == b[3]
num_finite_buckets(b) == b[4]

\* Bucketer::get under the BUCKETERS mutex, always inserting: not the code.
Bucketer_get_uncached(cache, params) ==
    [cache |-> Append(cache, params), ret |-> Len(cache) + 1]

\* Bucketer::get under the BUCKETERS mutex: the cache afterwards and the
\* address returned. F64 compares by value, and -0.0 equals 0.0.
Bucketer_get(cache, params) ==
    IF \E a \in DOMAIN cache : cache[a] = params
    THEN [cache |-> cache, ret |-> CHOOSE a \in DOMAIN cache : cache[a] = params]
    ELSE [cache |-> Append(cache, params), ret |-> Len(cache) + 1]

\* Bucketer::fixed_width
fixed_width_params(w, n) == Bucketer_new(w, f64(0), f64(1), n)
\* Bucketer::default: powers_of(4.0), that is scaled_powers_of(4.0, 1.0,
\* u32::MAX), whose 1 + ceil(log_4(u32::MAX)) is 17 (test_encode1).
default_params == Bucketer_new(f64(0), f64(4), f64(1), 17)
\* Bucketer::none
none_params == Bucketer_new(f64(0), f64(0), f64(0), 0)

\* Bucketer::lower_bound
lower_bound(b, i) ==
    LET result == f64_mul(width(b), f64(i + 1))
    IN IF growth_factor(b) /= f64(0)
       THEN f64_add(result, f64_mul(scale_factor(b), powf(growth_factor(b), i)))
       ELSE result

\* Bucketer::upper_bound
upper_bound(b, i) == lower_bound(b, i + 1)

\* The loop of get_bucket_for, searching lower_bound(k), not the code.
RECURSIVE get_bucket_for_loop_at_k(_, _, _, _)
get_bucket_for_loop_at_k(b, sample, i, j) ==
    IF j > i
    THEN LET k == i + ((j - i) \div 2)
             l == lower_bound(b, k)
         IN IF f64_lt(sample, l) THEN get_bucket_for_loop_at_k(b, sample, i, k)
            ELSE IF f64_lt(l, sample) THEN get_bucket_for_loop_at_k(b, sample, k + 1, j)
            ELSE k
    ELSE i - 1

\* The loop of Bucketer::get_bucket_for
RECURSIVE get_bucket_for_loop(_, _, _, _)
get_bucket_for_loop(b, sample, i, j) ==
    IF j > i
    THEN LET k == i + ((j - i) \div 2)
             l == lower_bound(b, k - 1)
         IN IF f64_lt(sample, l) THEN get_bucket_for_loop(b, sample, i, k)
            ELSE IF f64_lt(l, sample) THEN get_bucket_for_loop(b, sample, k + 1, j)
            ELSE k
    ELSE i - 1

\* Bucketer::get_bucket_for comparing the sample with lower_bound(k): not the code.
get_bucket_for_at_k(b, sample) ==
    get_bucket_for_loop_at_k(b, sample, 0, num_finite_buckets(b) + 1)

\* Bucketer::get_bucket_for
get_bucket_for(b, sample) == get_bucket_for_loop(b, sample, 0, num_finite_buckets(b) + 1)

\* Bucketer::encode, with growth_factor and scale_factor swapped: not the code.
encode_swapped(b) ==
    [width |-> Some(width(b)), growth_factor |-> Some(scale_factor(b)),
     scale_factor |-> Some(growth_factor(b)),
     num_finite_buckets |-> Some(num_finite_buckets(b))]

\* Bucketer::encode. The cast to u32 loses nothing: Bucketer::get admits at
\* most MAX_NUM_FINITE_BUCKETS buckets.
encode(b) ==
    [width |-> Some(width(b)), growth_factor |-> Some(growth_factor(b)),
     scale_factor |-> Some(scale_factor(b)),
     num_finite_buckets |-> Some(num_finite_buckets(b))]

\* Bucketer::decode: the cache afterwards and the Result returned, or the
\* panic of the assertion Bucketer::get makes before it takes the mutex.
decode(cache, proto) ==
    IF ~IsSome(proto.width)
    THEN [cache |-> cache, ret |-> <<"Err", "missing width field from bucketer">>]
    ELSE IF ~IsSome(proto.growth_factor)
    THEN [cache |-> cache, ret |-> <<"Err", "missing growth_factor field from bucketer">>]
    ELSE IF ~IsSome(proto.scale_factor)
    THEN [cache |-> cache, ret |-> <<"Err", "missing scale_factor field from bucketer">>]
    ELSE IF ~IsSome(proto.num_finite_buckets)
    THEN [cache |-> cache, ret |-> <<"Err", "missing num_finite_buckets field from bucketer">>]
    ELSE IF Unwrap(proto.num_finite_buckets) > MAX_NUM_FINITE_BUCKETS
    THEN [cache |-> cache,
          ret |-> <<"Panic", "assertion failed: num_finite_buckets <= Self::MAX_NUM_FINITE_BUCKETS">>]
    ELSE LET got == Bucketer_get(cache, Bucketer_new(Unwrap(proto.width),
                                    Unwrap(proto.growth_factor), Unwrap(proto.scale_factor),
                                    Unwrap(proto.num_finite_buckets)))
         IN [cache |-> got.cache, ret |-> <<"Ok", got.ret>>]

\* BucketerRef::eq: the addresses are compared
BucketerRef_eq(a, b) == a = b

\* The engine's variables, which the library calls leave alone.
engineVars == <<expVars, taskVars, lastApplied, clock, hist, bufVars, rtVars>>

\* The parameters the callers pass.
Widths == {f64(1), f64(2)}
GrowthFactors == {f64(0), f64(2)}
ScaleFactors == {f64(1)}
SampleValues == {Rat(k, 2) : k \in (-2) .. (4 * MaxBuckets + 1)}
ProtoFields == {"width", "growth_factor", "scale_factor", "num_finite_buckets"}

\* A factory (fixed_width, custom, default, none): one call of Bucketer::get,
\* which panics before it takes the mutex when there are too many buckets.
BucketerGet(fn, params) ==
    /\ num_finite_buckets(params) <= MAX_NUM_FINITE_BUCKETS
    /\ LET got == Bucketer_get(BUCKETERS, params)
       IN /\ Len(got.cache) <= MaxBucketers
          /\ BUCKETERS' = got.cache
          /\ handed' = handed \cup {<<params, got.ret>>}
          /\ called' = [fn |-> fn, params |-> params, ret |-> got.ret]
    /\ UNCHANGED <<dist, recorded, engineVars>>

\* b.get_bucket_for(sample) on the bucketer at address a
GetBucketFor(a, sample) ==
    /\ a \in DOMAIN BUCKETERS
    /\ called' = [fn |-> "get_bucket_for", b |-> a, sample |-> sample,
                  ret |-> get_bucket_for(BUCKETERS[a], sample)]
    /\ UNCHANGED <<BUCKETERS, handed, dist, recorded, engineVars>>

\* Bucketer::decode(&b.encode()) on the bucketer at address a
RoundTrip(a) ==
    /\ a \in DOMAIN BUCKETERS
    /\ LET got == decode(BUCKETERS, encode(BUCKETERS[a]))
       IN /\ Len(got.cache) <= MaxBucketers
          /\ BUCKETERS' = got.cache
          /\ handed' = IF got.ret[1] = "Ok"
                       THEN handed \cup {<<got.cache[got.ret[2]], got.ret[2]>>}
                       ELSE handed
          /\ called' = [fn |-> "decode", b |-> a, ret |-> got.ret]
    /\ UNCHANGED <<dist, recorded, engineVars>>

\* Bucketer::decode of a proto that lacks one field
DecodeMissing(a, field) ==
    /\ a \in DOMAIN BUCKETERS
    /\ LET got == decode(BUCKETERS, [encode(BUCKETERS[a]) EXCEPT ![field] = None])
       IN /\ BUCKETERS' = got.cache
          /\ called' = [fn |-> "decode_missing", b |-> a, field |-> field, ret |-> got.ret]
    /\ UNCHANGED <<handed, dist, recorded, engineVars>>

\* Bucketer::decode of a proto with its four fields, whose num_finite_buckets
\* is n
DecodeWire(a, n) ==
    /\ a \in DOMAIN BUCKETERS
    /\ LET got == decode(BUCKETERS, [encode(BUCKETERS[a]) EXCEPT
                                        !.num_finite_buckets = Some(n)])
       IN /\ Len(got.cache) <= MaxBucketers
          /\ BUCKETERS' = got.cache
          /\ handed' = IF got.ret[1] = "Ok"
                       THEN handed \cup {<<got.cache[got.ret[2]], got.ret[2]>>}
                       ELSE handed
          /\ called' = [fn |-> "decode_wire", b |-> a, n |-> n, ret |-> got.ret]
    /\ UNCHANGED <<dist, recorded, engineVars>>

\* The bucket counts a wire message carries: what the callers build, and one
\* more than Bucketer::get admits.
WireBuckets == {1, MaxBuckets, MAX_NUM_FINITE_BUCKETS + 1}

\* Callers of the bucketer factories, of get_bucket_for and of the wire form.
BktNext ==
    \/ \E w \in Widths : BucketerGet("fixed_width", fixed_width_params(w, MaxBuckets))
    \/ \E w \in Widths, g \in GrowthFactors, sc \in ScaleFactors :
          BucketerGet("custom", Bucketer_new(w, g, sc, MaxBuckets))
    \/ BucketerGet("default", default_params)
    \/ BucketerGet("none", none_params)
    \/ \E a \in 1 .. MaxBucketers, sample \in SampleValues : GetBucketFor(a, sample)
    \/ \E a \in 1 .. MaxBucketers : RoundTrip(a)
    \/ \E a \in 1 .. MaxBucketers, field \in ProtoFields : DecodeMissing(a, field)
    \/ \E a \in 1 .. MaxBucketers, n \in WireBuckets : DecodeWire(a, n)

SpecBkt == Init /\ [][BktNext]_vars

\* ------------------------------------------------ MetricConfig, the facades

\* The setters of MetricConfig; a BucketerRef is the bucketer's address.
set_cumulative(config, value) == [config EXCEPT !.cumulative = value]
set_skip_stable_cells(config, value) == [config EXCEPT !.skip_stable_cells = value]
set_delta_mode(config, value) == [config EXCEPT !.delta_mode = value]
set_user_timestamps(config, value) == [config EXCEPT !.user_timestamps = value]
set_bucketer(config, bucketer) == [config EXCEPT !.bucketer = Some(bucketer)]
clear_bucketer(config) == [config EXCEPT !.bucketer = None]

\* Equality of two Option<BucketerRef>
OptionBucketerRef_eq(a, b) ==
    IF IsSome(a) /\ IsSome(b) THEN BucketerRef_eq(Unwrap(a), Unwrap(b))
    ELSE IsSome(a) = IsSome(b)

\* An equality of MetricConfig that looks at the bucketer only: not the code.
MetricConfig_eq_bucketer_only(a, b) == OptionBucketerRef_eq(a.bucketer, b.bucketer)

\* #[derive(PartialEq)] on MetricConfig: field by field
MetricConfig_eq(a, b) ==
    /\ a.cumulative = b.cumulative
    /\ a.skip_stable_cells = b.skip_stable_cells
    /\ a.delta_mode = b.delta_mode
    /\ a.user_timestamps = b.user_timestamps
    /\ OptionBucketerRef_eq(a.bucketer, b.bucketer)

\* Counter::new keeping the caller's bucketer: not the code.
Counter_new_keep_bucketer(config) == [config EXCEPT !.cumulative = TRUE]

\* Counter::new (tsz/counter.rs): the config the counter keeps
Counter_new(config) == [config EXCEPT !.cumulative = TRUE, !.bucketer = None]

\* EventMetric::new (tsz/event_metric.rs): the config the metric keeps, and
\* the cache after BucketerRef::default() where it is called.
EventMetric_new(cache, config) ==
    IF IsSome(config.bucketer)
    THEN [cache |-> cache, config |-> [config EXCEPT !.cumulative = TRUE]]
    ELSE LET got == Bucketer_get(cache, default_params)
         IN [cache |-> got.cache,
             config |-> [config EXCEPT !.cumulative = TRUE, !.bucketer = Some(got.ret)]]

\* Gauge::new (tsz/gauge.rs): the config the gauge keeps
Gauge_new(config) == config

\* The configs a caller can build from MetricConfig::default() with the
\* setters and the bucketers handed out so far.
Configs ==
    [cumulative : BOOLEAN, skip_stable_cells : BOOLEAN, delta_mode : BOOLEAN,
     user_timestamps : BOOLEAN,
     bucketer : {None} \cup {Some(a) : a \in DOMAIN BUCKETERS}]

\* What one setter makes of a config.
SetterResults(config) ==
    {set_cumulative(config, v) : v \in BOOLEAN}
        \cup {set_skip_stable_cells(config, v) : v \in BOOLEAN}
        \cup {set_delta_mode(config, v) : v \in BOOLEAN}
        \cup {set_user_timestamps(config, v) : v \in BOOLEAN}
        \cup {set_bucketer(config, a) : a \in DOMAIN BUCKETERS}
        \cup {clear_bucketer(config)}

CounterNew(config) ==
    /\ called' = [fn |-> "Counter::new", config |-> config, ret |-> Counter_new(config)]
    /\ UNCHANGED <<BUCKETERS, handed, dist, recorded, engineVars>>

EventMetricNew(config) ==
    /\ LET made == EventMetric_new(BUCKETERS, config)
       IN /\ Len(made.cache) <= MaxBucketers
          /\ BUCKETERS' = made.cache
          /\ handed' = IF IsSome(config.bucketer) THEN handed
                       ELSE handed \cup {<<default_params, Unwrap(made.config.bucketer)>>}
          /\ called' = [fn |-> "EventMetric::new", config |-> config, ret |-> made.config]
    /\ UNCHANGED <<dist, recorded, engineVars>>

GaugeNew(config) ==
    /\ called' = [fn |-> "Gauge::new", config |-> config, ret |-> Gauge_new(config)]
    /\ UNCHANGED <<BUCKETERS, handed, dist, recorded, engineVars>>

\* lhs == rhs on two MetricConfig values
ConfigEq(lhs, rhs) ==
    /\ called' = [fn |-> "MetricConfig::eq", lhs |-> lhs, rhs |-> rhs,
                  ret |-> MetricConfig_eq(lhs, rhs)]
    /\ UNCHANGED <<BUCKETERS, handed, dist, recorded, engineVars>>

\* Callers building configs and facades and comparing configs.
CfgNext ==
    \/ BucketerGet("fixed_width", fixed_width_params(f64(1), MaxBuckets))
    \/ \E config \in Configs : CounterNew(config)
    \/ \E config \in Configs : EventMetricNew(config)
    \/ \E config \in Configs : GaugeNew(config)
    \/ \E lhs \in Configs : \E rhs \in SetterResults(lhs) : ConfigEq(lhs, rhs)

SpecCfg == Init /\ [][CfgNext]_vars

\* ------------------------------------------------------------ Distribution

\* Samples the two distributions hold together at most (the guard on the
\* calls that record or add).
MaxCount == 3

\* Distribution::new, with every field of the struct; a Vec is indexed from
\* 0, its model from 1.
distribution_new(bucketer) ==
    [bucketer |-> bucketer,
     buckets |-> [i \in 1 .. num_finite_buckets(BUCKETERS[bucketer]) |-> 0],
     underflow |-> 0, overflow |-> 0, count |-> 0,
     sum |-> f64(0), mean |-> f64(0), ssd |-> f64(0)]

\* Distribution::num_finite_buckets
distribution_num_finite_buckets(self) == num_finite_buckets(BUCKETERS[self.bucketer])

\* Distribution::sum_of_squared_deviations
sum_of_squared_deviations(self) == self.ssd

\* Distribution::record_to_bucket counting one sample whatever times is: not the code.
record_to_bucket_count_once(self, sample, bucket, times) ==
    LET placed ==
            IF bucket < 0 THEN [self EXCEPT !.underflow = @ + times]
            ELSE IF bucket >= distribution_num_finite_buckets(self)
                 THEN [self EXCEPT !.overflow = @ + times]
                 ELSE [self EXCEPT !.buckets[bucket + 1] = @ + times]
    IN [placed EXCEPT !.count = @ + 1,
                      !.sum = f64_add(@, f64_mul(sample, f64(times)))]

\* Distribution::record_to_bucket
record_to_bucket(self, sample, bucket, times) ==
    LET placed ==
            IF bucket < 0 THEN [self EXCEPT !.underflow = @ + times]
            ELSE IF bucket >= distribution_num_finite_buckets(self)
                 THEN [self EXCEPT !.overflow = @ + times]
                 ELSE [self EXCEPT !.buckets[bucket + 1] = @ + times]
        count == self.count + times
        dev == f64_mul(f64(times), f64_sub(sample, self.mean))
        new_mean == f64_add(self.mean, f64_div(dev, f64(count)))
    IN [placed EXCEPT !.count = count,
                      !.sum = f64_add(@, f64_mul(sample, f64(times))),
                      !.ssd = f64_add(@, f64_mul(dev, f64_sub(sample, new_mean))),
                      !.mean = new_mean]

\* Distribution::record_many
record_many(self, sample, times) ==
    record_to_bucket(self, sample, get_bucket_for(BUCKETERS[self.bucketer], sample), times)

\* Distribution::record
record(self, sample) == record_many(self, sample, 1)

\* The sums of Distribution::add, before any check.
add_sums(self, other) ==
    LET count == self.count + other.count
        sum == f64_add(self.sum, other.sum)
        mean == IF count > 0 THEN f64_div(sum, f64(count)) ELSE f64(0)
        square == f64_mul(f64_sub(mean, self.mean), f64_sub(mean, other.mean))
    IN [self EXCEPT
           !.buckets = [i \in DOMAIN @ |-> @[i] + other.buckets[i]],
           !.underflow = @ + other.underflow,
           !.overflow = @ + other.overflow,
           !.count = count,
           !.sum = sum,
           !.mean = mean,
           !.ssd = f64_add(@, f64_add(other.ssd,
                       f64_add(f64_mul(f64(self.count), square),
                               f64_mul(f64(other.count), square))))]

\* Distribution::add checking the bucketers after the sums: not the code.
add_then_check(self, other) ==
    IF ~BucketerRef_eq(self.bucketer, other.bucketer)
    THEN [self |-> add_sums(self, other), ret |-> <<"Err", "incompatible bucketers">>]
    ELSE [self |-> add_sums(self, other), ret |-> Ok]

\* Distribution::add: self afterwards, and the Result
add(self, other) ==
    IF ~BucketerRef_eq(self.bucketer, other.bucketer)
    THEN [self |-> self, ret |-> <<"Err", "incompatible bucketers">>]
    ELSE [self |-> add_sums(self, other), ret |-> Ok]

\* Distribution::clear
clear(self) ==
    [self EXCEPT !.buckets = [i \in DOMAIN @ |-> 0],
                 !.underflow = 0, !.overflow = 0, !.count = 0,
                 !.sum = f64(0), !.mean = f64(0), !.ssd = f64(0)]

\* The samples the callers record, and how many times at once.
DistSampleSeq == <<f64(-1), f64(1)>>
DistTimes == {0, 2}
NothingRecorded == [k \in DOMAIN DistSampleSeq |-> 0]
RECURSIVE CountOf(_, _)
CountOf(bag, k) == IF k = 0 THEN 0 ELSE bag[k] + CountOf(bag, k - 1)
\* The sum of the samples of a bag, each raised to the power e.
RECURSIVE SumOf(_, _, _)
SumOf(bag, e, k) ==
    IF k = 0 THEN f64(0)
    ELSE f64_add(f64_mul(f64(bag[k]), powf(DistSampleSeq[k], e)), SumOf(bag, e, k - 1))
Recorded(x, k, times) == [recorded EXCEPT ![x][k] = @ + times]
TotalCount(d) == d[1].count + d[2].count

\* Two new distributions, the first over the fixed-width bucketer of width
\* 1.0, the second over the same bucketer or over the one of width 2.0.
DistInit ==
    /\ ExpInit
    /\ BufInit
    /\ BUCKETERS = <<fixed_width_params(f64(1), MaxBuckets), fixed_width_params(f64(2), MaxBuckets)>>
    /\ handed = {<<BUCKETERS[a], a>> : a \in DOMAIN BUCKETERS}
    /\ \E a \in DOMAIN BUCKETERS : dist = <<distribution_new(1), distribution_new(a)>>
    /\ recorded = [x \in 1 .. 2 |-> NothingRecorded]
    /\ called = [fn |-> "none"]
    /\ RtInit

\* d.record(sample)
DistRecord(x, k) ==
    /\ TotalCount(dist) + 1 <= MaxCount
    /\ dist' = [dist EXCEPT ![x] = record(@, DistSampleSeq[k])]
    /\ recorded' = Recorded(x, k, 1)
    /\ called' = [fn |-> "record"]
    /\ UNCHANGED <<BUCKETERS, handed, engineVars>>

\* d.record_many(sample, times)
DistRecordMany(x, k, times) ==
    /\ TotalCount(dist) + times <= MaxCount
    /\ dist' = [dist EXCEPT ![x] = record_many(@, DistSampleSeq[k], times)]
    /\ recorded' = Recorded(x, k, times)
    /\ called' = [fn |-> "record_many"]
    /\ UNCHANGED <<BUCKETERS, handed, engineVars>>

\* d.record_to_bucket(sample, bucket, 1) with any bucket index
DistRecordToBucket(x, k, bucket) ==
    /\ TotalCount(dist) + 1 <= MaxCount
    /\ dist' = [dist EXCEPT ![x] = record_to_bucket(@, DistSampleSeq[k], bucket, 1)]
    /\ recorded' = Recorded(x, k, 1)
    /\ called' = [fn |-> "record_to_bucket"]
    /\ UNCHANGED <<BUCKETERS, handed, engineVars>>

\* dist[x].add(&dist[y]); for y = x the argument is a clone
DistAdd(x, y) ==
    /\ TotalCount(dist) + dist[y].count <= MaxCount
    /\ dist' = [dist EXCEPT ![x] = add(@, dist[y]).self]
    /\ recorded' = IF add(dist[x], dist[y]).ret = Ok
                   THEN [recorded EXCEPT
                            ![x] = [k \in DOMAIN @ |-> @[k] + recorded[y][k]]]
                   ELSE recorded
    /\ called' = [fn |-> "add", x |-> x, y |-> y, ret |-> add(dist[x], dist[y]).ret]
    /\ UNCHANGED <<BUCKETERS, handed, engineVars>>

\* d.clear()
DistClear(x) ==
    /\ dist' = [dist EXCEPT ![x] = clear(@)]
    /\ recorded' = [recorded EXCEPT ![x] = NothingRecorded]
    /\ called' = [fn |-> "clear"]
    /\ UNCHANGED <<BUCKETERS, handed, engineVars>>

DistNext ==
    \/ \E x \in 1 .. 2, k \in DOMAIN DistSampleSeq : DistRecord(x, k)
    \/ \E x \in 1 .. 2, k \in DOMAIN DistSampleSeq, times \in DistTimes :
          DistRecordMany(x, k, times)
    \/ \E x \in 1 .. 2, k \in DOMAIN DistSampleSeq, bucket \in {0, MaxBuckets} :
          DistRecordToBucket(x, k, bucket)
    \/ \E x, y \in 1 .. 2 : DistAdd(x, y)
    \/ \E x \in 1 .. 2 : DistClear(x)

SpecDist == DistInit /\ [][DistNext]_vars

\* ---------------------------------------------------------------- FieldMap

\* Entries passed to FieldMap::from at most.
MaxEntries == 3

\* The field names, in the order of String::cmp, and the field values.
FieldNameSeq == <<"dolor", "ipsum", "lorem">>
FieldNames == {FieldNameSeq[i] : i \in DOMAIN FieldNameSeq}
NameRank(name) == CHOOSE i \in DOMAIN FieldNameSeq : FieldNameSeq[i] = name
FieldValues == {"Bool(true)", "Int(42)"}
EntryArrays ==
    UNION {[1 .. n -> FieldNames \X FieldValues] : n \in 0 .. MaxEntries}

\* The arrangements of the entries of vec in another order.
Rearrangements(vec) ==
    {[i \in DOMAIN vec |-> vec[p[i]]] :
        p \in {q \in [DOMAIN vec -> DOMAIN vec] :
                  \A i, j \in DOMAIN vec : q[i] = q[j] => i = j}}

\* data.sort_unstable_by(key order): every outcome the sort may produce, the
\* order of entries with equal keys being unspecified.
sort_unstable_by(vec) ==
    {sorted \in Rearrangements(vec) :
        \A i, j \in DOMAIN sorted :
            i < j => NameRank(sorted[i][1]) <= NameRank(sorted[j][1])}

\* Vec::remove(i), i counted from 0
Vec_remove(vec, i) == SubSeq(vec, 1, i) \o SubSeq(vec, i + 2, Len(vec))

\* The loop of FieldMap::from stepping on after a removal: not the code.
RECURSIVE dedup_loop_skipping(_, _)
dedup_loop_skipping(vec, i) ==
    IF i < Len(vec)
    THEN IF vec[i][1] = vec[i + 1][1]
         THEN dedup_loop_skipping(Vec_remove(vec, i), i + 1)
         ELSE dedup_loop_skipping(vec, i + 1)
    ELSE vec

\* The while loop of FieldMap::from: data[i - 1] and data[i] of the code are
\* vec[i] and vec[i + 1] here.
RECURSIVE dedup_loop(_, _)
dedup_loop(vec, i) ==
    IF i < Len(vec)
    THEN IF vec[i][1] = vec[i + 1][1]
         THEN dedup_loop(Vec_remove(vec, i), i)
         ELSE dedup_loop(vec, i + 1)
    ELSE vec

\* FieldMap::from with the skipping loop: not the code.
FieldMap_from_skipping(sorted) == dedup_loop_skipping(sorted, 1)

\* FieldMap::from after the sort: the data of the map
FieldMap_from(sorted) == dedup_loop(sorted, 1)

\* Index<&str> for FieldMap: Some(value), or None for the panic
RECURSIVE FieldMap_index_loop(_, _, _, _)
FieldMap_index_loop(vec, index, i, j) ==
    IF i < j
    THEN LET k == i + ((j - i) \div 2)
             key == vec[k + 1][1]
         IN IF NameRank(index) < NameRank(key) THEN FieldMap_index_loop(vec, index, i, k)
            ELSE IF NameRank(index) > NameRank(key)
                 THEN FieldMap_index_loop(vec, index, k + 1, j)
                 ELSE Some(vec[k + 1][2])
    ELSE None
FieldMap_index(vec, index) == FieldMap_index_loop(vec, index, 0, Len(vec))

\* FieldMap::from(entries), the sort producing sorted; the caller has one
\* map at a time.
FieldMapFrom(entries, sorted) ==
    /\ called.fn = "none"
    /\ sorted \in sort_unstable_by(entries)
    /\ called' = [fn |-> "FieldMap::from", entries |-> entries, ret |-> FieldMap_from(sorted)]
    /\ UNCHANGED <<BUCKETERS, handed, dist, recorded, engineVars>>

\* map[name] on the map made last
FieldMapIndex(name) ==
    /\ called.fn = "FieldMap::from"
    /\ called' = [fn |-> "index", entries |-> called.entries, map |-> called.ret,
                  name |-> name, ret |-> FieldMap_index(called.ret, name)]
    /\ UNCHANGED <<BUCKETERS, handed, dist, recorded, engineVars>>

\* The map goes out of scope.
FieldMapDrop ==
    /\ called.fn \in {"FieldMap::from", "index"}
    /\ called' = [fn |-> "none"]
    /\ UNCHANGED <<BUCKETERS, handed, dist, recorded, engineVars>>

FmNext ==
    \/ \E entries \in EntryArrays : \E sorted \in Rearrangements(entries) :
          FieldMapFrom(entries, sorted)
    \/ \E name \in FieldNames : FieldMapIndex(name)
    \/ FieldMapDrop

SpecFm == Init /\ [][FmNext]_vars

\* ------------------------- buffered implementations and the registry by id

\* Implementation objects (CounterImpl / EventMetricImpl) made in one behaviour.
MaxImpls == 3

\* The variables a buffered implementation's construction and its tasks leave
\* alone.
engineButIotaAndConfigs ==
    <<entities, entities_lock, heap, taskVars, lastApplied, clock, hist,
      inner, dropped, data, register_task, unregister_task,
      mgr_metrics, mgr_lock, flush, tick, rd, ncalls, total, applied,
      BUCKETERS, handed, dist, recorded, called, lazy, thr, getVars>>

\* CounterImpl::new / EventMetricImpl::new: the object made with the id that
\* IOTA.fetch_add(1) of its own implementation returns; register() has posted
\* the registration task.
Impl_new(kind, name, id) ==
    [kind |-> kind, name |-> name, id |-> id,
     config |-> IF kind = "counter" THEN Counter_config ELSE EventMetric_config,
     register_task |-> "posted", unregister_task |-> "none"]

NoImpls == <<>>

\* BTreeMap::insert on the inner map (id -> metric): the map afterwards
BTreeMap_insert(map, id, x) ==
    [k \in DOMAIN map \cup {id} |-> IF k = id THEN x ELSE map[k]]

\* BTreeMap::remove on the inner map
BTreeMap_remove(map, id) == [k \in DOMAIN map \ {id} |-> map[k]]

\* MetricManager::register_metric after define_metric_redundant, under the
\* registry mutex: the registry afterwards and `previous`, the entry the
\* insert found under the metric's id (the assert panics when it is Some).
MetricManager_register_metric(metrics, metric, x) ==
    IF IsSome(metrics[metric.name])
    THEN [metrics |-> [metrics EXCEPT ![metric.name] =
                          Some(BTreeMap_insert(Unwrap(@), metric.id, x))],
          previous |-> IF metric.id \in DOMAIN Unwrap(metrics[metric.name])
                       THEN Some(Unwrap(metrics[metric.name])[metric.id])
                       ELSE None]
    ELSE [metrics |-> [metrics EXCEPT ![metric.name] = Some(BTreeMap_insert(NoImpls, metric.id, x))],
          previous |-> None]

\* MetricManager::unregister_metric on a name that has an entry
MetricManager_unregister_metric(metrics, metric) ==
    [metrics EXCEPT ![metric.name] = Some(BTreeMap_remove(Unwrap(@), metric.id))]

\* The first use of a new buffered Counter / EventMetric facade of the given
\* name: Lazy::deref runs CounterImpl::new / EventMetricImpl::new.
NewImpl(kind, name) ==
    /\ Len(impls) < MaxImpls
    /\ impls' = Append(impls, Impl_new(kind, name, iota[kind]))
    /\ iota' = [iota EXCEPT ![kind] = @ + 1]
    /\ UNCHANGED <<registry, metric_configs, engineButIotaAndConfigs>>

\* The registration task of impls[x], first part: define_metric_redundant.
RegisterMetricDefine(x) ==
    /\ x \in DOMAIN impls
    /\ impls[x].register_task = "posted"
    /\ metric_configs' = define_metric_redundant(metric_configs, impls[x].name, impls[x].config)
    /\ impls' = [impls EXCEPT ![x].register_task = "defined"]
    /\ UNCHANGED <<registry, iota, engineButIotaAndConfigs>>

\* The registration task of impls[x], second part: under the registry mutex
\* the object is inserted under its name and id, and the task panics at the
\* assert when the insert replaced an entry.
RegisterMetricInsert(x) ==
    /\ x \in DOMAIN impls
    /\ impls[x].register_task = "defined"
    /\ LET got == MetricManager_register_metric(registry, impls[x], x)
       IN /\ registry' = got.metrics
          /\ impls' = [impls EXCEPT ![x].register_task =
                          IF IsSome(got.previous) THEN "panicked" ELSE "done"]
    /\ UNCHANGED <<metric_configs, iota, engineButIotaAndConfigs>>

\* impl Drop for Counter (EventMetric has none): the unregister task is posted.
DropCounter(x) ==
    /\ x \in DOMAIN impls
    /\ impls[x].kind = "counter"
    /\ impls[x].unregister_task = "none"
    /\ impls' = [impls EXCEPT ![x].unregister_task = "posted"]
    /\ UNCHANGED <<registry, metric_configs, iota, engineButIotaAndConfigs>>

\* The unregister task of impls[x]: unwrap the entry of the name (a panic when
\* there is none) and remove the id from it.
UnregisterMetric(x) ==
    /\ x \in DOMAIN impls
    /\ impls[x].unregister_task = "posted"
    /\ IF IsSome(registry[impls[x].name])
       THEN /\ registry' = MetricManager_unregister_metric(registry, impls[x])
            /\ impls' = [impls EXCEPT ![x].unregister_task = "done"]
       ELSE /\ impls' = [impls EXCEPT ![x].unregister_task = "panicked"]
            /\ UNCHANGED registry
    /\ UNCHANGED <<metric_configs, iota, engineButIotaAndConfigs>>

\* Buffered Counters and EventMetrics of any names, each used at least once.
RegNext ==
    \/ \E kind \in {"counter", "event"}, name \in MetricNames : NewImpl(kind, name)
    \/ \E x \in 1 .. MaxImpls :
        \/ RegisterMetricDefine(x)
        \/ RegisterMetricInsert(x)
        \/ DropCounter(x)
        \/ UnregisterMetric(x)

SpecReg == Init /\ [][RegNext]_vars

\* ------------------------------------------------ Lazy (utils/lazy.rs)

\* The facade the threads share: Counter::new(name, config) of tsz/counter.rs.
LazyName == "/c"
LazyConfig == Counter_new(MetricConfig_default)

\* What a thread's call leaves alone besides the Lazy and the metric configs.
engineButConfigs ==
    <<entities, entities_lock, heap, taskVars, lastApplied, clock, hist, bufVars,
      BUCKETERS, handed, dist, recorded, called, impls, registry, getVars>>

\* deref, line 26: initialized.load(Acquire)
Lazy_first_check(l) == l.initialized

\* The second check left out: whoever gets the mutex runs the factory.
Lazy_second_check_skipped(l) == FALSE
\* deref, line 31: initialized.load(Relaxed) with the factory mutex held
Lazy_second_check(l) == l.initialized

\* CounterImpl::new, the factory of the facade: the value it returns (run is
\* the number of the factory call that made it)
CounterImpl_new(name, run) == [name |-> name, run |-> run]

\* Counter::name / Counter::config: a read of the facade's own field.
FacadeRead(t, call) ==
    /\ thr[t].pc = "idle"
    /\ thr' = [thr EXCEPT ![t] = [pc |-> "done", call |-> call, path |-> "-",
                                  ret |-> Some(IF call = "name" THEN LazyName ELSE LazyConfig)]]
    /\ UNCHANGED <<lazy, metric_configs, engineButConfigs>>

\* A use of the facade (get, increment_by, delete ...): self.inner is
\* dereferenced.
DerefStart(t) ==
    /\ thr[t].pc = "idle"
    /\ thr' = [thr EXCEPT ![t] = [pc |-> "first_check", call |-> "deref", path |-> "-",
                                  ret |-> None]]
    /\ lazy' = [lazy EXCEPT !.used = TRUE]
    /\ UNCHANGED <<metric_configs, engineButConfigs>>

\* deref, line 26: the first check.
DerefFirstCheck(t) ==
    /\ thr[t].pc = "first_check"
    /\ thr' = [thr EXCEPT ![t].pc = IF Lazy_first_check(lazy) THEN "read_value" ELSE "lock",
                          ![t].path = IF Lazy_first_check(lazy) THEN "fast" ELSE "slow"]
    /\ UNCHANGED <<lazy, metric_configs, engineButConfigs>>

\* deref, line 30: the factory mutex is taken.
DerefLock(t) ==
    /\ thr[t].pc = "lock"
    /\ lazy.factory_lock = 0
    /\ lazy' = [lazy EXCEPT !.factory_lock = t]
    /\ thr' = [thr EXCEPT ![t].pc = "second_check"]
    /\ UNCHANGED <<metric_configs, engineButConfigs>>

\* deref, lines 31-33: the second check; when it finds the value made, the
\* value is read and the guard dropped on return.
DerefSecondCheck(t) ==
    /\ thr[t].pc = "second_check"
    /\ IF Lazy_second_check(lazy)
       THEN /\ thr' = [thr EXCEPT ![t].pc = IF IsSome(lazy.value) THEN "done" ELSE "panicked",
                                  ![t].ret = lazy.value,
                                  ![t].path = "slow_hit"]
            /\ lazy' = [lazy EXCEPT !.factory_lock = 0]
       ELSE /\ thr' = [thr EXCEPT ![t].pc = "factory"]
            /\ UNCHANGED lazy
    /\ UNCHANGED <<metric_configs, engineButConfigs>>

\* deref, line 34: factory.take().unwrap()() runs CounterImpl::new, which
\* defines the metric. The unwrap panics when the factory was taken before;
\* the unwinding drops the guard.
DerefFactory(t) ==
    /\ thr[t].pc = "factory"
    /\ IF IsSome(lazy.factory)
       THEN /\ lazy' = [lazy EXCEPT !.factory = None, !.runs = @ + 1]
            /\ metric_configs' = define_metric_redundant(metric_configs, LazyName, LazyConfig)
            /\ thr' = [thr EXCEPT ![t].pc = "write_value",
                                  ![t].ret = Some(CounterImpl_new(LazyName, lazy.runs + 1)),
                                  ![t].path = "ran"]
       ELSE /\ lazy' = [lazy EXCEPT !.factory_lock = 0]
            /\ thr' = [thr EXCEPT ![t].pc = "panicked"]
            /\ UNCHANGED metric_configs
    /\ UNCHANGED engineButConfigs

\* deref, lines 35-37: the value is written into the cell.
DerefWriteValue(t) ==
    /\ thr[t].pc = "write_value"
    /\ lazy' = [lazy EXCEPT !.value = thr[t].ret]
    /\ thr' = [thr EXCEPT ![t].pc = "store", ![t].ret = None]
    /\ UNCHANGED <<metric_configs, engineButConfigs>>

\* deref, line 38: initialized.store(true, Release)
DerefStore(t) ==
    /\ thr[t].pc = "store"
    /\ lazy' = [lazy EXCEPT !.initialized = TRUE]
    /\ thr' = [thr EXCEPT ![t].pc = "unlock"]
    /\ UNCHANGED <<metric_configs, engineButConfigs>>

\* deref, line 39: the guard goes out of scope.
DerefUnlock(t) ==
    /\ thr[t].pc = "unlock"
    /\ lazy' = [lazy EXCEPT !.factory_lock = 0]
    /\ thr' = [thr EXCEPT ![t].pc = "read_value"]
    /\ UNCHANGED <<metric_configs, engineButConfigs>>

\* deref, lines 27 and 40: the value is read and unwrapped.
DerefReadValue(t) ==
    /\ thr[t].pc = "read_value"
    /\ thr' = [thr EXCEPT ![t].pc = IF IsSome(lazy.value) THEN "done" ELSE "panicked",
                          ![t].ret = lazy.value]
    /\ UNCHANGED <<lazy, metric_configs, engineButConfigs>>

\* The call returns to the thread.
ThreadReturn(t) ==
    /\ thr[t].pc = "done"
    /\ thr' = [thr EXCEPT ![t] = ThreadIdle]
    /\ UNCHANGED <<lazy, metric_configs, engineButConfigs>>

\* Threads that read and use one facade, in any order and at any time.
LazyNext ==
    \E t \in Threads :
        \/ \E call \in {"name", "config"} : FacadeRead(t, call)
        \/ DerefStart(t)
        \/ DerefFirstCheck(t)
        \/ DerefLock(t)
        \/ DerefSecondCheck(t)
        \/ DerefFactory(t)
        \/ DerefWriteValue(t)
        \/ DerefStore(t)
        \/ DerefUnlock(t)
        \/ DerefReadValue(t)
        \/ ThreadReturn(t)

SpecLazy == Init /\ [][LazyNext]_vars

\* ------------------------------------ the Exporter under a fair scheduler

\* The steps an operation of task t takes after its call: every await of the
\* operation that is ready to go on.
Step(t) ==
    \/ get_pinned_entity(t)
    \/ EntitySetValue(t)
    \/ DropEntityPin(t)
    \/ get_ephemeral_entity(t)
    \/ EntityGetInt(t)
    \/ EntityDeleteValue(t)
    \/ EntityDeleteMetric(t)
    \/ EntityClear(t)
    \/ RemoveEntity(t)
    \/ DeleteMetricLock(t)
    \/ DeleteMetricVisit(t)
    \/ DeleteMetricUnlock(t)

\* The executor polls every task that can go on, and a tokio Mutex is handed
\* to its waiters in turn: a task whose next step stays possible takes it.
SpecLive == Init /\ [][Next]_vars /\ \A t \in Tasks : WF_vars(Step(t))

\* ------------------------- the buffered metrics under a fair scheduler

\* The steps of the spawned tasks, of the periodic task (a tick comes every
\* FLUSH_PERIOD) and of a get that is under way.
BufStep ==
    \/ \E i \in Instances :
        \/ RegisterDefine(i)
        \/ RegisterInsert(i)
        \/ UnregisterTask(i)
    \/ AwaitRegistration
    \/ ManagerLock
    \/ ManagerRead
    \/ ManagerReturn
    \/ TickStart
    \/ FlushFetch
    \/ FlushApply
    \/ TickEnd

\* The runtime runs every spawned task that can go on, and the interval of
\* the periodic task keeps ticking.
SpecBufLive == Init /\ [][BufNext]_vars /\ WF_vars(BufStep)

\* --------------------- gets of a buffered metric on one executor thread (C36)

engineButBuf ==
    <<expVars, taskVars, lastApplied, clock, hist,
      BUCKETERS, handed, dist, recorded, called, impls, registry, lazy, thr>>

\* *register_task_handle: Some(handle) from register() until it is set to None.
register_task_handle_value(i) ==
    IF IsSome(inner[i]) /\ ~register_task_handle[i].taken THEN Some("JoinHandle") ELSE None

\* The executor thread is inside a lock() that does not return: nothing else
\* is polled on it.
ThreadStuck == \E g \in Gets : getf[g].pc = "deadlocked"

\* Counter::get / EventMetric::get is called and its future is made.
GetCall(g, i, key) ==
    /\ ~ThreadStuck
    /\ getf[g].pc = "idle"
    /\ ~dropped[i]
    /\ ncalls < MaxCalls
    /\ ncalls' = ncalls + 1
    /\ Deref(i)
    /\ getf' = [getf EXCEPT ![g] = [pc |-> "await_registration", inst |-> i,
                                    key |-> key, ret |-> None]]
    /\ UNCHANGED <<dropped, data, unregister_task, mgr_metrics, mgr_lock, flush, tick,
                   rd, total, applied, register_task_handle>>
    /\ UNCHANGED engineButBuf

\* await_registration, first poll: register_task_handle.lock().unwrap(). The
\* std Mutex is taken by a blocking call. When a suspended future polled by
\* the same thread holds the guard, the call does not return: the thread
\* deadlocks or the call panics (the standard library leaves open which).
\* With the guard and no handle left, the function returns at once.
AwaitRegistrationLock(g) ==
    /\ ~ThreadStuck
    /\ getf[g].pc = "await_registration"
    /\ LET i == getf[g].inst
       IN IF register_task_handle[i].owner /= 0
          THEN /\ \E outcome \in {"deadlocked", "panicked"} :
                    getf' = [getf EXCEPT ![g].pc = outcome]
               /\ UNCHANGED register_task_handle
          ELSE IF IsSome(register_task_handle_value(i))
          THEN /\ register_task_handle' = [register_task_handle EXCEPT ![i].owner = g]
               /\ getf' = [getf EXCEPT ![g].pc = "await_handle"]
          ELSE /\ getf' = [getf EXCEPT ![g].pc = "get"]
               /\ UNCHANGED register_task_handle
    /\ UNCHANGED <<bufVars, engineButBuf>>

\* await_registration, handle.await: ready once the registration task has
\* finished; the handle is set to None and the guard is dropped.
AwaitHandle(g) ==
    /\ ~ThreadStuck
    /\ getf[g].pc = "await_handle"
    /\ register_task[getf[g].inst] = "done"
    /\ register_task_handle' =
           [register_task_handle EXCEPT ![getf[g].inst] = [owner |-> 0, taken |-> TRUE]]
    /\ getf' = [getf EXCEPT ![g].pc = "get"]
    /\ UNCHANGED <<bufVars, engineButBuf>>

\* get: METRIC_MANAGER.get_int / get_distribution is called.
GetManager(g) ==
    /\ ~ThreadStuck
    /\ getf[g].pc = "get"
    /\ rd.pc = "idle"
    /\ rd' = [pc |-> "lock", inst |-> getf[g].inst, name |-> Name(getf[g].inst),
              key |-> getf[g].key,
              snap |-> [j \in Instances |-> total[j][getf[g].key]], res |-> None]
    /\ getf' = [getf EXCEPT ![g].pc = "manager"]
    /\ UNCHANGED <<inner, dropped, iota, data, register_task, unregister_task,
                   mgr_metrics, mgr_lock, flush, tick, ncalls, total, applied,
                   register_task_handle>>
    /\ UNCHANGED engineButBuf

\* The steps of the manager's get on the executor thread.
GetManagerStep ==
    /\ ~ThreadStuck
    /\ \/ ManagerLock
       \/ FlushFetch
       \/ FlushApply
       \/ ManagerRead

\* The manager's get returns and so does the facade's.
GetReturn(g) ==
    /\ ~ThreadStuck
    /\ getf[g].pc = "manager"
    /\ rd.pc = "got"
    /\ mgr_lock' = "free"
    /\ getf' = [getf EXCEPT ![g].pc = "done", ![g].ret = rd.res]
    /\ rd' = RdIdle
    /\ UNCHANGED <<inner, dropped, iota, data, register_task, unregister_task,
                   mgr_metrics, flush, tick, ncalls, total, applied, register_task_handle>>
    /\ UNCHANGED engineButBuf

\* What the runtime does without a new call: the registration tasks on the
\* worker threads and the polls of the executor thread.
GetStep ==
    \/ \E i \in Instances :
        \/ RegisterDefine(i)
        \/ RegisterInsert(i)
    \/ \E g \in Gets :
        \/ AwaitRegistrationLock(g)
        \/ AwaitHandle(g)
        \/ GetManager(g)
        \/ GetReturn(g)
    \/ GetManagerStep

GetNext ==
    \/ \E g \in Gets, i \in Instances, k \in Keys : GetCall(g, i, k)
    \/ \E i \in Instances, k \in Keys :
        \/ \E d \in Deltas : IncrementBy(i, k, d)
        \/ \E x \in Samples, n \in Times : Record(i, k, x, n)
    \/ GetStep

SpecGet == Init /\ [][GetNext]_vars /\ WF_vars(GetStep)

\* ------------------------------------------------- entity pinning (C1..C4)

Quiescent == \A t \in Tasks : pc[t] = "idle"

\* C1: while a writer holds a pinned handle on an entity (from the return of
\* get_pinned_entity to the drop of the handle), the entity stays in the
\* Exporter's entities set.
C1_PinnedEntityStaysInSet ==
    \A t \in Tasks : HoldsPin(t) => obj[t] \in entities

\* C2: once every operation has completed, a cell whose last applied mutation
\* is a write of v (the write was applied after any clear of the entity's
\* metrics) reads Some(v): no write was applied to an entity object that had
\* left the entities set.
C2_WriteAfterClearIsRead ==
    Quiescent =>
        \A e \in EntityLabels, m \in MetricNames, f \in FieldSets :
            IsSome(lastApplied[e][m][f]) =>
                Exporter_get_int(e, m, f) = lastApplied[e][m][f]

\* C3: every entity's pin_count equals the number of live EntityPin handles
\* on it (so it is 0 when no write to the entity is in flight, and is never
\* decremented at 0).
C3_PinCountIsLivePins ==
    \A o \in DOMAIN heap :
        heap[o].pin_count = Cardinality({t \in Tasks : HoldsPin(t) /\ obj[t] = o})

\* C4: whenever no Exporter operation is in flight, every entity in the
\* entities set holds at least one metric.
C4_QuiescentEntitiesHoldMetrics ==
    Quiescent => \A o \in entities : ~metrics_is_empty(heap[o])

\* ------------------------------------------- buffered metrics: the claims

SameName(n) == {i \in Instances : Name(i) = n}

\* The sum of the values f[i] of the instances i of S (None when all are None).
RECURSIVE SumOpt(_, _, _)
SumOpt(kind, f, S) ==
    IF S = {} THEN None
    ELSE LET i == CHOOSE x \in S : TRUE
         IN PlusOpt(kind, f[i], SumOpt(kind, f, S \ {i}))

\* The Exporter cell of metric n at key k, as a getter reads it.
CellOf(n, k) == Exporter_get_int(k[1], n, k[2])

\* The part of the batch being flushed that belongs to metric n at key k.
InFlight_batch(n, k) ==
    IF flush.cur /= 0 /\ Name(flush.cur) = n THEN flush.by_entity[k[1]][k[2]] ELSE None

C6_ManagerGetReflectsAllInstances ==
    rd.pc = "got" =>
        Covers(KindOfName(rd.name), rd.res,
               SumOpt(KindOfName(rd.name), rd.snap, SameName(rd.name)))

\* C7: once the flush of a tick is complete, every delta that was buffered in
\* an instance registered when the tick fired has been applied to the
\* Exporter, and the Exporter cell holds at least their sum.
C7_TickFlushesRegistered ==
    (tick.pc = "flushing" /\ FlushDone) =>
        \A i \in tick.reg : \A k \in Keys :
            /\ Covers(Kind(i), applied[i][k], tick.snap[i][k])
            /\ Covers(Kind(i), CellOf(Name(i), k),
                      SumOpt(Kind(i), [j \in Instances |-> tick.snap[j][k]],
                             tick.reg \cap SameName(Name(i))))

C7_Witness ==
    /\ tick.pc = "flushing"
    /\ FlushDone
    /\ rd.pc = "idle"
    /\ \E k \in Keys : tick.snap[1][k] = Some(1) /\ tick.snap[2][k] = Some(1)
                       /\ {1, 2} \subseteq tick.reg /\ CellOf("/c", k) = Some(2)

\* C8: for every metric and key, the Exporter cell plus the deltas in the
\* local buffers plus the deltas of the batch in flight is the sum of all the
\* deltas of the increment_by / record calls made.
C8_DeltasConserved ==
    \A n \in MetricNames : \A k \in Keys :
        LET kind == KindOfName(n) IN
        Plus(kind, OrZero(kind, CellOf(n, k)),
             Plus(kind, OrZero(kind, SumOpt(kind, [j \in Instances |-> data[j][k]], SameName(n))),
                        OrZero(kind, InFlight_batch(n, k))))
        = OrZero(kind, SumOpt(kind, [j \in Instances |-> total[j][k]], SameName(n)))

C8_Witness ==
    /\ Pending(flush.by_entity) /= {}
    /\ \E k \in Keys : IsSome(CellOf("/c", k)) /\ IsSome(InFlight_batch("/c", k))

\* C9: once a facade is dropped and the tasks it posted have run, its instance
\* is not in the registry and its unregister task has not panicked.
C9_DroppedIsUnregistered ==
    \A i \in Instances :
        ( /\ dropped[i]
          /\ register_task[i] \in {"none", "done"}
          /\ unregister_task[i] /= "posted" )
        => (~IsRegistered(i) /\ unregister_task[i] /= "panicked")

C11_FailedFlushDoesNotStopTicks ==
    [][FlushPanic => tick'.pc = "flushing" /\ flush'.queue = flush.queue]_vars

\* ------------------------------------------------- deletes (C12)

\* The cell of (labels, name, f) in the store: the one of the entity of these
\* labels in the entities set.
StoreCell(labels, name, f) ==
    IF Lookup(labels) = 0 \/ ~IsSome(heap[Lookup(labels)].metrics[name])
    THEN None
    ELSE Unwrap(heap[Lookup(labels)].metrics[name]).cells[f]

StoreCells == [e \in EntityLabels, m \in MetricNames, f \in FieldSets |-> StoreCell(e, m, f)]

\* What a delete returns when its key is absent.
AbsentResult(kind) == IF kind = "delete_value" THEN None ELSE Bool(FALSE)

\* The delete of task t has found its key absent: no entity of these labels,
\* or no such metric or cell in the entity it found.
FoundAbsent(t) ==
    CASE pc[t] = "get_ephemeral_entity" -> Lookup(op[t].e) = 0
      [] pc[t] = "Entity_delete_value" ->
            ~IsSome(Entity_get_int(heap[obj[t]], op[t].m, op[t].f))
      [] pc[t] = "Entity_delete_metric" -> ~IsSome(heap[obj[t]].metrics[op[t].m])
      [] pc[t] = "remove_entity" -> res[t].ret = AbsentResult(op[t].kind)
      [] OTHER -> FALSE

\* C12: delete_value, delete_metric_from_entity and delete_entity on an absent
\* key return None / false, create no entity and leave every cell of the store
\* as it is: no step of a delete that has found its key absent changes a cell
\* or adds an entity, and the delete returns None / false.
C12_DeleteOfAbsentKeyChangesNothing ==
    [][\A t \in DOMAIN pc :
         (/\ pc'[t] /= pc[t]
          /\ op[t].kind \in {"delete_value", "delete_metric_from_entity", "delete_entity"}
          /\ FoundAbsent(t))
         => /\ StoreCells' = StoreCells
            /\ entities' \subseteq entities
            /\ (pc'[t] = "idle" => res'[t].ret = AbsentResult(op[t].kind))
      ]_vars

\* ------------------------------------------------- getters (C13)

\* C13: a typed getter leaves the store unchanged: no step of get_int inserts
\* an entity, a metric or a cell or changes a value, a timestamp or a pin
\* count, and it returns None when the entity, the metric or the cell is
\* absent (the cell's value otherwise).
C13_GetterLeavesStoreUnchanged ==
    [][\A t \in DOMAIN pc :
         (pc'[t] /= pc[t] /\ op[t].kind = "get_int")
         => /\ metric_configs' = metric_configs
            /\ entities' = entities
            /\ heap' = heap
            /\ (pc[t] = "get_ephemeral_entity" /\ Lookup(op[t].e) = 0
                   => pc'[t] = "idle" /\ res'[t].ret = None)
            /\ (pc[t] = "Entity_get_int"
                   => /\ pc'[t] = "idle"
                      /\ res'[t].ret =
                           LET e == heap[obj[t]] IN
                           IF IsSome(e.metrics[op[t].m])
                              /\ IsSome(Unwrap(e.metrics[op[t].m]).cells[op[t].f])
                           THEN Some(Unwrap(Unwrap(e.metrics[op[t].m]).cells[op[t].f]).value.v)
                           ELSE None)
      ]_vars

\* A get_int has looked its entity up and is about to read a cell that is
\* absent from an entity that holds another cell.
C13_Witness ==
    \E t \in Tasks :
        /\ pc[t] = "Entity_get_int"
        /\ ~IsSome(Entity_get_int(heap[obj[t]], op[t].m, op[t].f))
        /\ ~metrics_is_empty(heap[obj[t]])

\* ------------------------------------------------- timestamps (C14, C15)

\* The cell of (name, f) in entity object o, None if it has none.
ObjCell(o, name, f) ==
    IF IsSome(heap[o].metrics[name]) THEN Unwrap(heap[o].metrics[name]).cells[f] ELSE None

\* The writer whose step this is: the task that leaves its write step.
IsWriteStepOf(t) ==
    /\ pc[t] \in {"Entity_set_value", "Entity_add_to_int"}
    /\ pc'[t] = "drop_EntityPin"

\* C14: the mutation that creates a cell sets its start timestamp and its
\* update timestamp to the timestamp of that mutation; a later set_* or
\* add_to_int on the cell changes its value and update timestamp (to the
\* writer's timestamp) and never its start timestamp.
C14_StartTimestampIsCreationTime ==
    [][\A o \in DOMAIN heap, m \in MetricNames, f \in FieldSets :
         /\ (IsSome(ObjCell(o, m, f)) /\ IsSome(ObjCell(o, m, f)'))
              => Unwrap(ObjCell(o, m, f)').start_timestamp
                   = Unwrap(ObjCell(o, m, f)).start_timestamp
         /\ (~IsSome(ObjCell(o, m, f)) /\ IsSome(ObjCell(o, m, f)'))
              => \E t \in Tasks :
                    /\ IsWriteStepOf(t)
                    /\ Unwrap(ObjCell(o, m, f)').start_timestamp = op[t].now
                    /\ Unwrap(ObjCell(o, m, f)').update_timestamp = op[t].now
         /\ \A t \in Tasks :
              (IsWriteStepOf(t) /\ o = obj[t] /\ m = op[t].m /\ f = op[t].f)
              => Unwrap(ObjCell(o, m, f)').update_timestamp = op[t].now
      ]_vars

\* A cell's update timestamp is later than its start timestamp: it was
\* written again after time had passed.
C14_Witness ==
    \E o \in DOMAIN heap, m \in MetricNames, f \in FieldSets :
        /\ IsSome(ObjCell(o, m, f))
        /\ Unwrap(ObjCell(o, m, f)).update_timestamp > Unwrap(ObjCell(o, m, f)).start_timestamp

\* C15: concurrent set_* calls on one cell are serialized: at every moment,
\* and so after all of them have completed, the cell of the store holds the
\* value of the write that was applied last and, as its update timestamp, the
\* timestamp which that same writer read.
C15_LastAppliedWriteWins ==
    \A e \in EntityLabels, m \in MetricNames, f \in FieldSets :
        IsSome(lastApplied[e][m][f])
        => /\ IsSome(StoreCell(e, m, f))
           /\ Unwrap(StoreCell(e, m, f)).value = Value_Int(Unwrap(lastApplied[e][m][f]))
           /\ Unwrap(StoreCell(e, m, f)).update_timestamp = hist.written[e][m][f]

\* Both writers have completed set_* calls that were in flight together, and
\* the one applied last had read the earlier timestamp: the cell's update
\* timestamp is older than one it had before.
C15_Witness ==
    /\ Quiescent
    /\ \E f \in FieldSets :
          /\ IsSome(StoreCell("e1", "/c", f))
          /\ Unwrap(StoreCell("e1", "/c", f)).update_timestamp
               < Unwrap(StoreCell("e1", "/c", f)).start_timestamp

\* ------------------------------------------------- cancellation (C16)

\* C16: a set_* / add_* call cancelled before its cell mutation leaves the
\* store as it was before the call and holds no lock. As long as no write has
\* reached its cell mutation (every write so far was cancelled before it, or
\* is still before it), the store is therefore the initial one: no entity in
\* the set, no entity object with a pin count other than 0, no mutex held by
\* an idle task.
C16_CancelledWriteLeavesNoTrace ==
    (Quiescent /\ ~hist.mutated)
    => /\ entities = {}
       /\ \A o \in DOMAIN heap : ~is_pinned(heap[o]) /\ heap[o].lock = 0
       /\ entities_lock = 0

\* ------------------------------------------------- metric configs (C17, C18)

\* C17: define_metric on a name that is already defined returns the
\* already-defined error and leaves the config map unchanged; on an undefined
\* name it inserts the config and returns Ok.
C17_DefineMetricTwiceIsAnError ==
    [][\A t \in Tasks :
         (pc[t] = "define_metric" /\ pc'[t] = "idle")
         => IF IsSome(metric_configs[op[t].m])
            THEN /\ metric_configs' = metric_configs
                 /\ res'[t].ret = Err_AlreadyDefined
            ELSE /\ metric_configs' = [metric_configs EXCEPT ![op[t].m] = Some(op[t].config)]
                 /\ res'[t].ret = Ok
      ]_vars

\* A define_metric has returned the error and the name still has the other
\* config.
C17_Witness ==
    /\ metric_configs["/c"] = Some(MetricConfig_cumulative)
    /\ \E t \in Tasks : Len(res[t].ret) = 2 /\ res[t].ret = Err_AlreadyDefined

\* C18: once a name is defined, its config is the one of the first
\* definition for ever: no step (define_metric, define_metric_redundant, the
\* definitions made by the facades, in any interleaving and with any config)
\* changes or removes it, and get_metric_config returns it.
C18_FirstDefinitionWins ==
    [][/\ \A n \in MetricNames :
            IsSome(metric_configs[n]) => metric_configs'[n] = metric_configs[n]
       /\ \A t \in Tasks :
            (pc[t] = "get_metric_config" /\ pc'[t] = "idle")
            => res'[t].ret = metric_configs[op[t].m]
      ]_vars

\* "/d" was defined as cumulative, a later define_metric on it has been
\* refused and a define_metric_redundant with the default config is about to
\* act on it.
C18_Witness ==
    /\ metric_configs["/d"] = Some(MetricConfig_cumulative)
    /\ \E t \in Tasks : Len(res[t].ret) = 2 /\ res[t].ret[1] = "Err"
    /\ \E t \in Tasks :
          /\ pc[t] = "define_metric_redundant"
          /\ op[t].m = "/d"
          /\ op[t].config = MetricConfig_default

\* ------------------------------------------------- counters (C19)

\* C19: the cell of an integer counter holds the sum of the deltas applied by
\* increment_by since the cell was last created (lastApplied: Some(0) after
\* increment_by(0) on an absent cell), and is absent before the first
\* increment and after a delete of the cell or of its metric; get returns
\* exactly that, so an increment_by(d) after a delete yields Some(d).
C19_CounterIsSumOfDeltas ==
    [][\A f \in FieldSets :
         /\ Exporter_get_int("e1", "/c", f)' = lastApplied'["e1"]["/c"][f]
         /\ (op[1].kind = "get_int" /\ op[1].f = f /\ pc'[1] = "idle")
              => res'[1].ret = lastApplied["e1"]["/c"][f]
         /\ (pc[1] = "Entity_add_to_int" /\ op[1].f = f /\ pc'[1] = "drop_EntityPin")
              => Exporter_get_int("e1", "/c", f)'
                   = Some((IF IsSome(Exporter_get_int("e1", "/c", f))
                           THEN Unwrap(Exporter_get_int("e1", "/c", f)) ELSE 0)
                          + op[1].v)
         /\ (pc[1] = "Entity_delete_value" /\ op[1].f = f /\ pc'[1] /= pc[1])
              => ~IsSome(Exporter_get_int("e1", "/c", f)')
         /\ (pc[1] = "Entity_delete_metric" /\ pc'[1] /= pc[1])
              => ~IsSome(Exporter_get_int("e1", "/c", f)')
      ]_vars

\* All calls are done and the cell holds 0: it was created by an
\* increment_by(0) on the absent cell.
C19_Witness ==
    /\ Exporter_get_int("e1", "/c", "f1") = Some(0)
    /\ nops = MaxOps
    /\ pc[1] = "idle"

\* ------------------------------------------------- deletes of present keys (C20)

\* Every cell of the store other than those of metric m of entity e in the
\* field sets F is the same after the step.
OtherCellsKept(e, m, F) ==
    \A x \in DOMAIN StoreCells :
        ~(x[1] = e /\ x[2] = m /\ x[3] \in F) => StoreCells'[x] = StoreCells[x]

\* C20: delete_value(E, m, f) removes exactly the cell (E, m, f) and returns
\* the value it had; delete_metric_from_entity(E, m) removes exactly the
\* cells of m in E; every other cell of the store keeps its value and
\* timestamps through every step of the delete, the removal of the emptied
\* entity included.
C20_DeleteRemovesExactlyItsCells ==
    [][\A t \in DOMAIN pc, f \in FieldSets :
         /\ (pc[t] = "Entity_delete_value" /\ op[t].f = f /\ pc'[t] /= pc[t])
              => /\ OtherCellsKept(op[t].e, op[t].m, {f})
                 /\ res'[t].ret = Entity_get_int(heap[obj[t]], op[t].m, f)
                 /\ \/ ~IsSome(heap'[obj[t]].metrics[op[t].m])
                    \/ ~IsSome(Unwrap(heap'[obj[t]].metrics[op[t].m]).cells[f])
         /\ (pc[t] = "Entity_delete_metric" /\ pc'[t] /= pc[t])
              => /\ OtherCellsKept(op[t].e, op[t].m, FieldSets)
                 /\ ~IsSome(heap'[obj[t]].metrics[op[t].m])
         /\ (/\ pc[t] = "remove_entity" /\ pc'[t] /= pc[t]
             /\ op[t].kind \in {"delete_value", "delete_metric_from_entity"}
             /\ res[t].ret /= AbsentResult(op[t].kind))
              => OtherCellsKept(op[t].e, op[t].m,
                                IF op[t].kind = "delete_value" THEN {op[t].f} ELSE FieldSets)
      ]_vars

\* ------------------------------------------------- bucketer cache (C22)

\* C22: the bucketer cache is canonical. Any two returns of Bucketer::get
\* (through any factory or through decode) are the same instance exactly when
\* their four parameters are equal; the cache holds at most one entry per
\* parameter tuple; an entry, once made, is never removed or replaced.
C22_BucketerCacheIsCanonical ==
    /\ [](/\ \A x, y \in handed : BucketerRef_eq(x[2], y[2]) <=> (x[1] = y[1])
          /\ \A a, b \in DOMAIN BUCKETERS : BUCKETERS[a] = BUCKETERS[b] => a = b)
    /\ [][\A a \in DOMAIN BUCKETERS :
             a \in DOMAIN BUCKETERS' /\ BUCKETERS'[a] = BUCKETERS[a]]_vars

\* A factory call that found its bucketer, the older of two, in the cache.
C22_Witness ==
    /\ called.fn = "custom"
    /\ called.ret = 1
    /\ Len(BUCKETERS) = 2

\* ------------------------------------------------- buckets (C23, C24)

\* C23: for a bucketer b with n finite buckets and a sample s, the index
\* i = b.get_bucket_for(s) agrees with the bounds b reports: 0 <= i < n gives
\* lower_bound(i) <= s < upper_bound(i), i < 0 gives s < lower_bound(0), and
\* i >= n gives s >= upper_bound(n - 1).
C23_BucketBoundsContainSample ==
    called.fn = "get_bucket_for" =>
        LET b == BUCKETERS[called.b]
            n == num_finite_buckets(b)
            s == called.sample
            i == called.ret
        IN /\ (0 <= i /\ i < n) =>
                  f64_le(lower_bound(b, i), s) /\ f64_lt(s, upper_bound(b, i))
           /\ i < 0 => f64_lt(s, lower_bound(b, 0))
           /\ i >= n => f64_le(upper_bound(b, n - 1), s)

Floor(x) == x[1] \div x[2]
IsFixedWidth(b) == growth_factor(b) = f64(0) /\ f64_lt(f64(0), width(b))

\* C24: for a fixed-width bucketer of width w > 0 with n buckets,
\* get_bucket_for(s) is -1 when s < 0, n when s >= w * n and floor(s / w)
\* otherwise; a sample on the boundary k * w falls in bucket k; the result
\* lies in -1 .. n.
C24_FixedWidthBucketIsFloor ==
    (called.fn = "get_bucket_for" /\ IsFixedWidth(BUCKETERS[called.b])) =>
        LET b == BUCKETERS[called.b]
            w == width(b)
            n == num_finite_buckets(b)
            s == called.sample
            i == called.ret
        IN /\ i = (IF f64_lt(s, f64(0)) THEN -1
                   ELSE IF f64_le(f64_mul(w, f64(n)), s) THEN n
                   ELSE Floor(f64_div(s, w)))
           /\ i \in (-1) .. n
           /\ \A k \in 0 .. n : s = f64_mul(w, f64(k)) => i = k

\* The sample 2.0 on the boundary of buckets 0 and 1 of fixed_width(2.0, n).
C24_Witness ==
    /\ called.fn = "get_bucket_for"
    /\ IsFixedWidth(BUCKETERS[called.b])
    /\ width(BUCKETERS[called.b]) = f64(2)
    /\ called.sample = f64(2)
    /\ called.ret = 1

\* ------------------------------------------------- bucketer wire form (C25)

\* C25: Bucketer::decode(&b.encode()) succeeds, returns the interned
\* instance b itself, and adds no entry to the cache.
C25_DecodeOfEncodeIsTheSameInstance ==
    [][\A a \in DOMAIN BUCKETERS :
          RoundTrip(a) => called'.ret = <<"Ok", a>> /\ BUCKETERS' = BUCKETERS]_vars

\* The round trip of the second bucketer of the cache.
C25_Witness ==
    /\ called.fn = "decode"
    /\ called.b = 2
    /\ called.ret = <<"Ok", 2>>

\* ------------------------------------------------- facade configs (C21)

C29_EqualIffSameBucketer ==
    called.fn = "MetricConfig::eq" =>
        (called.ret <=> called.lhs.bucketer = called.rhs.bucketer)

\* C29, amended: two MetricConfig values compare equal exactly when their
\* four flags are equal and their bucketer fields are both None or both hold
\* bucketers of the same parameters, that is the same interned instance.
C29_EqualIffAllFieldsEqual ==
    called.fn = "MetricConfig::eq" =>
        LET l == called.lhs
            r == called.rhs
        IN called.ret <=>
               /\ <<l.cumulative, l.skip_stable_cells, l.delta_mode, l.user_timestamps>>
                    = <<r.cumulative, r.skip_stable_cells, r.delta_mode, r.user_timestamps>>
               /\ IsSome(l.bucketer) = IsSome(r.bucketer)
               /\ IsSome(l.bucketer) /\ IsSome(r.bucketer) =>
                      BUCKETERS[Unwrap(l.bucketer)] = BUCKETERS[Unwrap(r.bucketer)]

\* Two configs with the same bucketer and different flags compare unequal.
C29_Witness ==
    /\ called.fn = "MetricConfig::eq"
    /\ IsSome(called.lhs.bucketer)
    /\ called.lhs.bucketer = called.rhs.bucketer
    /\ called.lhs.cumulative /= called.rhs.cumulative
    /\ ~called.ret

\* ------------------------------------------------- distributions (C26..C28)

RECURSIVE SeqSum(_, _)
SeqSum(q, k) == IF k = 0 THEN 0 ELSE q[k] + SeqSum(q, k - 1)

\* C26: after any sequence of record, record_many, record_to_bucket, add
\* (successful or failed) and clear, a distribution's count is its underflow
\* plus its overflow plus its finite buckets, it has as many finite bucket
\* counters as its bucketer has finite buckets, and its sum is the total of
\* the samples recorded into it, directly or by add, since its last clear.
C26_DistributionCountsAgree ==
    \A x \in 1 .. 2 :
        LET d == dist[x]
        IN /\ d.count = d.underflow + d.overflow + SeqSum(d.buckets, Len(d.buckets))
           /\ Len(d.buckets) = num_finite_buckets(BUCKETERS[d.bucketer])
           /\ d.sum = SumOf(recorded[x], 1, Len(DistSampleSeq))

\* A distribution that holds an underflow and an overflow sample after an add.
C26_Witness ==
    /\ called.fn = "add"
    /\ called.ret = Ok
    /\ dist[called.x].underflow = 1
    /\ dist[called.x].overflow = 1
    /\ dist[called.x].count = 2

\* C27: for two distributions on the same bucketer, a.add(b) and b.add(a)
\* leave equal buckets, underflow, overflow, count and sum; on different
\* bucketers add returns the error and leaves self as it was.
C27_AddCommutesOrFails ==
    [][\A x, y \in 1 .. 2 :
          DistAdd(x, y) =>
              IF dist[x].bucketer = dist[y].bucketer
              THEN LET ab == dist'[x]
                       ba == add(dist[y], dist[x])
                   IN /\ called'.ret = Ok
                      /\ ba.ret = Ok
                      /\ ab.buckets = ba.self.buckets
                      /\ ab.underflow = ba.self.underflow
                      /\ ab.overflow = ba.self.overflow
                      /\ ab.count = ba.self.count
                      /\ ab.sum = ba.self.sum
              ELSE /\ called'.ret = <<"Err", "incompatible bucketers">>
                   /\ dist'[x] = dist[x]
      ]_vars

\* An add of a distribution holding 1.0 into one holding -1.0.
C27_Witness ==
    /\ called.fn = "add"
    /\ called.ret = Ok
    /\ called.x /= called.y
    /\ recorded[called.x] = <<1, 1>>
    /\ recorded[called.y] = <<0, 1>>

\* The sum of squared deviations from the mean of the samples of a bag.
TrueSSD(bag) ==
    LET K == Len(DistSampleSeq)
        n == CountOf(bag, K)
    IN IF n = 0 THEN f64(0)
       ELSE f64_sub(SumOf(bag, 2, K),
                    f64_div(f64_mul(SumOf(bag, 1, K), SumOf(bag, 1, K)), f64(n)))

\* C28: after a.add(b), a.sum_of_squared_deviations() is the sum of squared
\* deviations of all the samples of a and b together, and it is not
\* negative.
C28_AddCombinesSquaredDeviations ==
    (called.fn = "add" /\ called.ret = Ok) =>
        LET ssd == sum_of_squared_deviations(dist[called.x])
        IN /\ ssd = TrueSSD(recorded[called.x])
           /\ f64_le(f64(0), ssd)

\* ------------------------------------------------- field maps (C30)

NamesOf(vec) == {vec[i][1] : i \in DOMAIN vec}
DistinctNames(vec) == \A i, j \in DOMAIN vec : vec[i][1] = vec[j][1] => i = j

\* C30: FieldMap::from produces entries in strictly ascending order of their
\* names (sorted, no name twice). For distinct names every permutation of the
\* entries yields an equal FieldMap, and indexing by a supplied name returns
\* the value supplied with it; for a name supplied more than once, indexing
\* returns one of the values supplied with it.
C30_FieldMapIsCanonical ==
    /\ called.fn = "FieldMap::from" =>
          /\ \A i, j \in DOMAIN called.ret :
                i < j => NameRank(called.ret[i][1]) < NameRank(called.ret[j][1])
          /\ NamesOf(called.ret) = NamesOf(called.entries)
          /\ DistinctNames(called.entries) =>
                \A other \in Rearrangements(called.entries) :
                    \A sorted \in sort_unstable_by(other) :
                        FieldMap_from(sorted) = called.ret
    /\ called.fn = "index" =>
          IF called.name \in NamesOf(called.entries)
          THEN /\ IsSome(called.ret)
               /\ \E i \in DOMAIN called.entries :
                     called.entries[i] = <<called.name, Unwrap(called.ret)>>
          ELSE called.ret = None

\* Indexing by a name that was supplied twice, with different values, in an
\* array of three entries.
C30_Witness ==
    /\ called.fn = "index"
    /\ Len(called.entries) = 3
    /\ Len(called.map) = 2
    /\ called.entries[1][1] = called.name
    /\ called.entries[3][1] = called.name
    /\ called.entries[1][2] /= called.entries[3][2]
    /\ IsSome(called.ret)

\* ----------------------------------------------- ids of buffered metrics (C31)

\* C31: no two buffered metric instances made in the process, Counters and
\* EventMetrics alike, have the same id, and the assertion of register_metric
\* that the insert found no previous entry under the (name, id) never fails.
C31_IdsAreUniqueAndRegisterNeverPanics ==
    /\ \A x, y \in DOMAIN impls : x /= y => impls[x].id /= impls[y].id
    /\ \A x \in DOMAIN impls : impls[x].register_task /= "panicked"

\* ------------------------------------------------------- Lazy::deref (C32)

\* C32: the facade's Lazy value is initialised exactly once. Until a thread
\* uses the facade (name() and config() are no use) the factory has not run
\* and the metric is not defined; the factory never runs twice; no deref
\* panics; and every deref that has returned, on whichever path, holds the
\* one value the factory made, with the metric defined.
C32_LazyIsInitialisedExactlyOnce ==
    /\ ~lazy.used => /\ lazy.runs = 0
                     /\ ~lazy.initialized
                     /\ lazy.value = None
                     /\ metric_configs[LazyName] = None
    /\ lazy.runs <= 1
    /\ \A t \in Threads :
        /\ thr[t].pc /= "panicked"
        /\ (thr[t].call = "deref" /\ thr[t].pc = "done") =>
              /\ lazy.runs = 1
              /\ thr[t].ret = Some(CounterImpl_new(LazyName, 1))
              /\ lazy.initialized
              /\ metric_configs[LazyName] = Some(LazyConfig)

\* Two first uses have raced: one thread ran the factory, another one went
\* for the mutex as well and found the value made at the second check, and
\* both have returned.
C32_Witness ==
    \E t, u \in Threads :
        /\ thr[t].pc = "done" /\ thr[t].path = "ran"
        /\ thr[u].pc = "done" /\ thr[u].path = "slow_hit"

\* ------------------------------------------ completion of operations (C33)

\* C33: under fair scheduling every Exporter operation that was started
\* eventually completes; no task waits forever for the entities mutex or for
\* the metrics mutex of an entity.
C33_EveryOperationCompletes ==
    \A t \in Tasks : (pc[t] /= "idle") ~> (pc[t] = "idle")

\* ------------------------------------------- order of the timestamps (C34)

\* C34: the clock never goes back (Advance), and so after every step each
\* cell has start_timestamp <= update_timestamp, and no mutation of a cell
\* lowers its update_timestamp, however the concurrent writers of the cell
\* interleave.
C34_TimestampsNeverGoBack ==
    [][\A o \in DOMAIN heap, m \in MetricNames, f \in FieldSets :
         /\ IsSome(ObjCell(o, m, f)')
              => Unwrap(ObjCell(o, m, f)').start_timestamp
                   <= Unwrap(ObjCell(o, m, f)').update_timestamp
         /\ (IsSome(ObjCell(o, m, f)) /\ IsSome(ObjCell(o, m, f)'))
              => Unwrap(ObjCell(o, m, f)').update_timestamp
                   >= Unwrap(ObjCell(o, m, f)).update_timestamp
      ]_vars

\* -------------------------------------- increments of a dropped Counter (C35)

\* C35: once a buffered Counter is dropped, every delta that was passed to
\* increment_by before the drop is eventually applied to the Exporter, also
\* when no get and no tick comes between the last increment and the
\* unregistration.
C35_IncrementsSurviveTheDrop ==
    \A i \in Instances :
        (Kind(i) = "counter" /\ dropped[i]) ~> (applied[i] = total[i])

\* ------------------------------------------ every get returns (C36)

\* C36: every get on a buffered metric eventually returns, also when several
\* gets on one instance are polled by one executor thread before the
\* instance's registration task has finished.
C36_EveryGetReturns ==
    \A g \in Gets : (getf[g].pc /= "idle") ~> (getf[g].pc = "done")

\* ------------------------------------------ recording zero times (C37)

\* C37: record_many(sample, 0), and so record_to_bucket(sample, bucket, 0),
\* leaves every field of the Distribution as it was, also on an empty
\* distribution.
C37_RecordingZeroTimesChangesNothing ==
    [][\A x \in 1 .. 2, k \in DOMAIN DistSampleSeq :
          DistRecordMany(x, k, 0) => dist' = dist]_vars

\* ------------------------------------------ decode never aborts (C38)

\* C38: Bucketer::decode returns a bucketer or a missing-field error for
\* every wire message, also for one with its four fields and more than
\* MAX_NUM_FINITE_BUCKETS buckets; on an error the cache gets no entry.
C38_DecodeNeverAborts ==
    [][called'.fn \in {"decode", "decode_missing", "decode_wire"} =>
          /\ called'.ret[1] \in {"Ok", "Err"}
          /\ called'.ret[1] = "Err" => BUCKETERS' = BUCKETERS]_vars

\* ------------------------------------------ no metric without cells (C39)

\* C39: no entity object holds a metric with zero cells: a metric enters the
\* metrics set with its first cell and leaves it with its last.
C39_NoMetricWithoutCells ==
    \A o \in DOMAIN heap, m \in MetricNames :
        IsSome(heap[o].metrics[m]) => ~Metric_is_empty(Unwrap(heap[o].metrics[m]))

\* A delete_value has just removed the last cell of a metric and returned its
\* value; the metric is gone from the entity, which is about to be removed.
C39_Witness ==
    \E t \in Tasks :
        /\ pc[t] = "remove_entity"
        /\ op[t].kind = "delete_value"
        /\ IsSome(res[t].ret)
        /\ heap[obj[t]].metrics[op[t].m] = None

\* ------------------------------------ a write finds its metric defined (C40)

====
